---------------------------- MODULE Spec2Model ----------------------------
(***************************************************************************)
(* FerrymanX: the attestation endpoint (POST /api/nft/attestation) with    *)
(* its two storage implementations, and the relayer (relayBridgeOut,       *)
(* pollBridges) with the client's manual claim.                            *)
(*                                                                         *)
(* Awaited calls are the interleaving points: each action runs one         *)
(* handler from one await to the next.                                     *)
(***************************************************************************)
EXTENDS Integers, Sequences, FiniteSets, TLC

VARIABLES
    \* ---- attestation service ----
    storageKind,    \* "postgres" | "mem": the implementation `storage` selected at startup
    signerKey,      \* process.env.NFT_SIGNER_PRIVATE_KEY is set
    nftContracts,   \* NFT_CONTRACTS: [ETH, NEOX] -> address ("0x0" is the zero address)
    rows,           \* signed_nft_transactions / MemStorage.signedNftTransactions
    req,            \* the in-flight HTTP requests: slot -> handler state
    recStat,        \* per triple: outcomes of recordNftTransactionSigned calls
    issued,         \* per triple: number of 200 {signature} responses sent
    \* ---- ledgers as the relayer and the client see them ----
    height,             \* per chain: the current block number
    events,             \* BridgeOutRequested logs emitted so far: [net, block, nonce]
    ferryProcessed,     \* per chain: the Ferry's processedMessages mapping
    balance,            \* per chain: native balance of the relayer wallet
    fulfilled,          \* per source event: successful fulfillBridgeIn executions
    \* ---- relayer process ----
    relayerKey,         \* process.env.RELAYER_PRIVATE_KEY is set
    processedMessages,  \* the module-level Set of message ids
    lastBlock,          \* lastEthBlock / lastNeoxBlock
    tick,               \* the setInterval callbacks in flight: slot -> position
    hist,               \* per source event, this process lifetime: what the relayer did
    \* ---- client (Bridge.tsx, localStorage) ----
    clientBridges,      \* per source event: status of the stored PendingBridge
    \* ---- computeMessageId applied to field tuples ----
    idA, idB,           \* two field tuples
    idOut,              \* the identifiers computed for them, by which variant
    \* ---- QuantumSignatureNFT (EIP-712 version) ----
    signer,             \* address whose signatures are accepted
    mintFee,            \* flat mint fee
    minted,             \* the messageIds marked minted
    messageIdToTokenId, \* messageId -> tokenId (0 until set)
    tokenIdCounter,     \* _tokenIdCounter
    tokenMetadata,      \* tokenId -> BridgeMetadata
    owners,             \* ERC721 _owners: tokenId -> holder
    signerUpdated,      \* the oldSigner of every SignerUpdated event
    nftLast,            \* the last transaction sent to the contract and how it ended
    \* ---- QGovernance and the PFORK token it reads ----
    pforkBalance,       \* pfork.balanceOf: account -> tokens
    govBlockNumber,     \* block.number of the governance chain
    quorum,             \* QGovernance.quorum
    executionDelay,     \* QGovernance.executionDelay
    proposals,          \* _proposals: id -> ProposalCore
    proposalIdCounter,  \* _proposalIdCounter (= totalProposals)
    executedProposals,  \* executedProposals
    govLast,            \* the last transaction sent to QGovernance and how it ended
    \* ---- QBridgeVault and the QPriorityFeeManager it calls ----
    vaultBlockNumber,   \* block.number of the vault's chain
    stateVerifier,      \* QBridgeVault.stateVerifier
    priorityFeeManager, \* QBridgeVault.priorityFeeManager
    exitDelay,          \* QBridgeVault.exitDelay
    priorityExitDelay,  \* QBridgeVault.priorityExitDelay
    deposits,           \* _deposits[user][pfork]
    exitRequests,       \* _exitRequests: exitId -> ExitRequest
    exitIdCounter,      \* _exitIdCounter
    usedCommitments,    \* the deposit commitments marked used
    unitsAvailable,     \* QPriorityFeeManager: <<user, batchId>> -> units
    transfers,          \* the token transfers the vault has made, in order
    vaultLast,          \* the last transaction sent to the vault and how it ended
    \* ---- pollBridges on one chain, at heights where the lookback binds ----
    scanHeight,         \* the chain's current block number
    lastSeenBlock,      \* lastEthBlock
    poll,               \* the setInterval callbacks in flight: slot -> position
    scanned,            \* the blocks read by queryFilter so far
    firstPolled,        \* height of the first poll that went through (-1: none yet)
    latestPolled,       \* height of the latest poll that went through (-1: none yet)
    gapsWithin,         \* consecutive polls that went through were at most WINDOW apart
    \* ---- QSequencerBondVault ----
    sequencerInfo,      \* _sequencers: address -> SequencerInfo
    activeSequencerList,\* _activeSequencerList
    sequencerIndex,     \* _sequencerIndex, of the addresses it holds an entry for
    minBondAmount,      \* minBondAmount
    unstakeDelay,       \* unstakeDelay
    totalBonded,        \* totalBonded
    slashedPool,        \* slashedPool
    pforkOf,            \* PFORK balance of each staker outside the vault
    bondTime,           \* block.timestamp
    minBondChanged      \* setMinBondAmount has changed the minimum since construction

attVars == <<storageKind, signerKey, nftContracts, rows, req, recStat, issued>>
relayVars == <<height, events, ferryProcessed, balance, fulfilled, relayerKey, processedMessages, lastBlock, tick, hist, clientBridges>>
idVars == <<idA, idB, idOut>>
nftVars == <<signer, mintFee, minted, messageIdToTokenId, tokenIdCounter, tokenMetadata, owners, signerUpdated, nftLast>>
govVars == <<pforkBalance, govBlockNumber, quorum, executionDelay, proposals, proposalIdCounter, executedProposals, govLast>>
vaultVars == <<vaultBlockNumber, stateVerifier, priorityFeeManager, exitDelay, priorityExitDelay, deposits, exitRequests, exitIdCounter, usedCommitments, unitsAvailable, transfers, vaultLast>>
scanVars == <<scanHeight, lastSeenBlock, poll, scanned, firstPolled, latestPolled, gapsWithin>>
bondVars == <<sequencerInfo, activeSequencerList, sequencerIndex, minBondAmount, unstakeDelay, totalBonded, slashedPool, pforkOf, bondTime, minBondChanged>>
elseVars == <<idVars, nftVars, govVars, vaultVars, scanVars, bondVars>>
notId == <<attVars, relayVars, nftVars, govVars, vaultVars, scanVars, bondVars>>
notNft == <<attVars, relayVars, idVars, govVars, vaultVars, scanVars, bondVars>>
notGov == <<attVars, relayVars, idVars, nftVars, vaultVars, scanVars, bondVars>>
notVault == <<attVars, relayVars, idVars, nftVars, govVars, scanVars, bondVars>>
notScan == <<attVars, relayVars, idVars, nftVars, govVars, vaultVars, bondVars>>
notBond == <<attVars, relayVars, idVars, nftVars, govVars, vaultVars, scanVars>>
vars == <<attVars, relayVars, elseVars>>

(***************************************************************************)
(* Bounds of the model.                                                    *)
(***************************************************************************)
NReq == 2            \* concurrent HTTP requests
MaxDeviations == 2   \* fields in which an explored claim differs from a well-formed one

(***************************************************************************)
(* Program constants.                                                      *)
(***************************************************************************)
EthChainId == 1
NeoxChainId == 47763
TimestampTolerance == 60
ZeroAddress == "0x0"

Networks == {"ETH", "NEOX"}
NETWORKS == [ETH |-> [chainId |-> EthChainId], NEOX |-> [chainId |-> NeoxChainId]]
FERRY_CONTRACTS == [ETH |-> "ferryEth", NEOX |-> "ferryNeox"]

(***************************************************************************)
(* Strings that carry hexadecimal letter case (addresses, hashes): v is    *)
(* the value, up says whether the text holds upper-case letters.           *)
(***************************************************************************)
Hex(v, up) == [v |-> v, up |-> up]
\* a conversion that leaves the letter case as it is
KeepCase(s) == s

toLowerCase(s) == [s EXCEPT !.up = FALSE]
EmptyString == Hex("", FALSE)

Abs(x) == IF x < 0 THEN -x ELSE x

\* an identifier that leaves the fee out of the packed fields
PackWithoutFee(srcChainId, dstChainId, srcFerry, nonce, from, toOnOther, amountIn, amountOut, nativeFee) ==
    [h |-> <<srcChainId, dstChainId, srcFerry, nonce, from.v, toOnOther.v, amountIn, amountOut>>,
     up |-> FALSE]

(***************************************************************************)
(* keccak256(solidityPacked(...)), injective on the packed fields: the     *)
(* identifier is the packed tuple itself.  Addresses are packed as bytes,  *)
(* so their letter case is lost; the digest is printed in lower case.      *)
(***************************************************************************)
computeMessageId(srcChainId, dstChainId, srcFerry, nonce, from, toOnOther, amountIn, amountOut, nativeFee) ==
    [h |-> <<srcChainId, dstChainId, srcFerry, nonce, from.v, toOnOther.v,
             amountIn, amountOut, nativeFee>>,
     up |-> FALSE]

NoMessageId == [h |-> <<>>, up |-> FALSE]

(***************************************************************************)
(* The two ledgers as the attestation service reads them.  Receipts and    *)
(* blocks are immutable.                                                   *)
(***************************************************************************)
Alice == Hex("alice", TRUE)     \* ethers returns checksummed (mixed-case) addresses
Bob == Hex("bob", TRUE)

BridgeOut(from, to, amountIn, amountOut, fee, nonce) ==
    [from |-> from, toOnOtherChain |-> to, amountIn |-> amountIn,
     amountOut |-> amountOut, pforkFeePaid |-> fee, nonce |-> nonce]

NoArgs == BridgeOut(EmptyString, EmptyString, 0, 0, 0, 0)

Log(address, index, name, args) ==
    [address |-> address, index |-> index, name |-> name, args |-> args]

EventA == BridgeOut(Alice, Alice, 100, 99, 1, 7)
EventB == BridgeOut(Alice, Bob, 50, 49, 1, 8)
EventC == BridgeOut(Bob, Bob, 100, 99, 1, 7)

LedgerReceipts ==
    [ETH |-> [tx1 |->
        [from |-> Alice, blockNumber |-> 5,
         logs |-> << Log(Hex("pforkEth", TRUE), 0, "Transfer", NoArgs),
                     Log(Hex("ferryEth", TRUE), 1, "BridgeInFulfilled", NoArgs),
                     Log(Hex("ferryEth", TRUE), 2, "BridgeOutRequested", EventA),
                     Log(Hex("ferryEth", TRUE), 3, "BridgeOutRequested", EventB) >>]],
     NEOX |-> [tx2 |->
        [from |-> Bob, blockNumber |-> 9,
         logs |-> << Log(Hex("ferryNeox", TRUE), 0, "BridgeOutRequested", EventC) >>]]]

LedgerBlocks ==
    [ETH |-> [timestamp |-> 1000], NEOX |-> [timestamp |-> 1000]]

\* provider.getTransactionReceipt(txHash): a set holding the receipt, or {} for null.
\* The node reads the hash without regard to letter case.
getTransactionReceipt(net, txHash) ==
    IF txHash.v \in DOMAIN LedgerReceipts[net]
    THEN {LedgerReceipts[net][txHash.v]}
    ELSE {}

getBlock(net, blockNumber) == LedgerBlocks[net]

(***************************************************************************)
(* A claim: the request body.  A number 0, an empty string are falsy.      *)
(* timestamp keeps whether the JSON value is numeric: n is its value when  *)
(* it is, and a non-numeric string makes the subtraction NaN.              *)
(***************************************************************************)
Num(n) == [num |-> TRUE, n |-> n]
NotNumeric == [num |-> FALSE, n |-> 0]

Claim(messageId, bridger, amount, timestamp, sourceChain, destChain, txHash) ==
    [messageId |-> messageId, bridger |-> bridger, amount |-> amount,
     timestamp |-> timestamp, sourceChain |-> sourceChain,
     destChain |-> destChain, txHash |-> txHash]

\* !messageId || !bridger || !amount || !timestamp || !sourceChain || !destChain || !txHash
MissingFields(c) ==
    \/ c.messageId.h = <<>>
    \/ c.bridger.v = ""
    \/ c.amount = 0
    \/ (c.timestamp.num /\ c.timestamp.n = 0)
    \/ c.sourceChain = 0
    \/ c.destChain = 0
    \/ c.txHash.v = ""

\* sourceChain === 1 ? ... ETH : ... NEOX
SelectNetwork(sourceChain) == IF sourceChain = EthChainId THEN "ETH" ELSE "NEOX"

\* a service that takes its NFT contracts to be deployed on both chains
DeployedEverywhere(sourceChain) == "nft"

nftContractAddress(sourceChain) == nftContracts[SelectNetwork(sourceChain)]

derivedDestChain(sourceChain) ==
    IF sourceChain = EthChainId THEN NeoxChainId ELSE EthChainId

\* a handler without the sender check
NoSenderCheck(receipt, c) == FALSE

\* receipt.from?.toLowerCase() !== bridger.toLowerCase()
SenderMismatch(receipt, c) == toLowerCase(receipt.from) # toLowerCase(c.bridger)

\* a tolerance check that rejects the boundary itself
OutsideAtBoundary(blockTimestamp, timestamp) ==
    timestamp.num /\ Abs(blockTimestamp - timestamp.n) >= TimestampTolerance

\* timeDiff = Math.abs(blockTimestamp - timestamp); timeDiff > 60.  NaN > 60 is false.
TimestampOutside(blockTimestamp, timestamp) ==
    timestamp.num /\ Abs(blockTimestamp - timestamp.n) > TimestampTolerance

\* an amount comparison that tolerates one wei
AmountWithinOne(eventAmountOut, amount) == Abs(eventAmountOut - amount) <= 1

\* eventAmountOut.toString() !== BigInt(amount).toString()
AmountMatches(eventAmountOut, amount) == eventAmountOut = amount

\* One pass of the loop body over a log entry of the Ferry: does this entry validate?
LogValidates(logEntry, c, ferryAddress) ==
    /\ logEntry.name = "BridgeOutRequested"
    /\ toLowerCase(logEntry.args.from) = toLowerCase(c.bridger)
    /\ AmountMatches(logEntry.args.amountOut, c.amount)
    /\ toLowerCase(computeMessageId(c.sourceChain, c.destChain, ferryAddress,
                                    logEntry.args.nonce, logEntry.args.from,
                                    logEntry.args.toOnOtherChain, logEntry.args.amountIn,
                                    logEntry.args.amountOut, logEntry.args.pforkFeePaid))
         = toLowerCase(c.messageId)

\* receipt.logs.filter(l => l.address.toLowerCase() === ferryAddress.toLowerCase())
FerryLogs(receipt, ferryAddress) ==
    SelectSeq(receipt.logs, LAMBDA l : l.address.v = ferryAddress)

\* a scan that gives up at the first entry that does not validate
FirstEntryOnly(logs, i, c, ferryAddress) ==
    IF i > Len(logs) THEN -1
    ELSE IF LogValidates(logs[i], c, ferryAddress) THEN logs[i].index
    ELSE -1

\* for (const logEntry of logs) ... break: the index of the first validating entry, or -1
RECURSIVE ScanLogs(_, _, _, _)
ScanLogs(logs, i, c, ferryAddress) ==
    IF i > Len(logs) THEN -1
    ELSE IF LogValidates(logs[i], c, ferryAddress) THEN logs[i].index
    ELSE ScanLogs(logs, i + 1, c, ferryAddress)

validatedLogIndex(receipt, c) ==
    LET ferryAddress == FERRY_CONTRACTS[SelectNetwork(c.sourceChain)]
    IN  ScanLogs(FerryLogs(receipt, ferryAddress), 1, c, ferryAddress)

(***************************************************************************)
(* Replay guard.  A triple is (txHash lower-cased, logIndex, sourceChain). *)
(***************************************************************************)
\* a key that leaves the log index out
KeyPerTransaction(txHash, logIndex, sourceChain) == <<txHash.v, 0, sourceChain>>

Key(txHash, logIndex, sourceChain) == <<txHash.v, logIndex, sourceChain>>
RowKey(row) == Key(row.txHash, row.logIndex, row.sourceChain)

TxNames == {"tx1", "tx2"}
ClaimChains == {EthChainId, NeoxChainId, 2}
Keys == {<<h, i, s>> : h \in TxNames, i \in 0..3, s \in ClaimChains}

\* a replay check that never finds a record
NothingSigned(table, txHash, logIndex, sourceChain) == FALSE

\* checkNftTransactionSigned of both implementations: select ... where / Map.has(key).
\* eq(txHash) and the Map key compare the hash as text, letter case included.
checkNftTransactionSigned(table, txHash, logIndex, sourceChain) ==
    \E row \in table :
        row.txHash = txHash /\ RowKey(row) = Key(txHash, logIndex, sourceChain)

\* The row an insert creates: id is a fresh identifier (gen_random_uuid / randomUUID),
\* told apart by the triple and the number of rows created for it before.
NewRow(transaction, n) == [transaction EXCEPT !.id = <<RowKey(transaction), n + 1>>]

\* PostgresStorage.recordNftTransactionSigned under uniqueBridgeEvent: the insert fails
\* on an existing triple and the table is left as it was.
PgDuplicate(table, transaction) ==
    \E row \in table :
        row.txHash = transaction.txHash /\ RowKey(row) = RowKey(transaction)

PgInsert(table, transaction, n) == table \cup {NewRow(transaction, n)}

\* MemStorage.recordNftTransactionSigned: Map.set(key, record) replaces the entry.
MemSet(table, transaction, n) ==
    {row \in table : row.txHash # transaction.txHash \/ RowKey(row) # RowKey(transaction)}
        \cup {NewRow(transaction, n)}

\* a storage that acknowledges the write and keeps nothing
AckWithoutWrite(kind, table, transaction, n) == [ok |-> TRUE, table |-> table]

\* storage.recordNftTransactionSigned(transaction) of the selected implementation:
\* whether it returns a record (ok) or throws, and the table afterwards.
recordNftTransactionSigned(kind, table, transaction, n) ==
    IF kind = "postgres"
    THEN IF PgDuplicate(table, transaction)
         THEN [ok |-> FALSE, table |-> table]
         ELSE [ok |-> TRUE, table |-> PgInsert(table, transaction, n)]
    ELSE [ok |-> TRUE, table |-> MemSet(table, transaction, n)]

(***************************************************************************)
(* The claims explored.  A well-formed claim is what a caller builds from  *)
(* a ledger event; the others differ from one in up to MaxDeviations       *)
(* fields.                                                                 *)
(***************************************************************************)
ClaimFor(tx, ev, sourceChain) ==
    Claim(computeMessageId(sourceChain, derivedDestChain(sourceChain),
                           FERRY_CONTRACTS[SelectNetwork(sourceChain)], ev.nonce, ev.from,
                           ev.toOnOtherChain, ev.amountIn, ev.amountOut, ev.pforkFeePaid),
          ev.from, ev.amountOut, Num(1000), sourceChain,
          derivedDestChain(sourceChain), Hex(tx, FALSE))

ClaimA == ClaimFor("tx1", EventA, EthChainId)
ClaimB == ClaimFor("tx1", EventB, EthChainId)
ClaimC == ClaimFor("tx2", EventC, NeoxChainId)
ClaimD == ClaimFor("tx2", EventC, 2)
WellFormed == {ClaimA, ClaimC, ClaimD}

MessageIds ==
    {NoMessageId} \cup {c.messageId : c \in WellFormed}
                  \cup {[c.messageId EXCEPT !.up = TRUE] : c \in WellFormed}
Bridgers == {EmptyString, Alice, Bob, Hex("alice", FALSE)}
Amounts == {0, 49, 98, 99, 100}
Timestamps == {Num(0), Num(939), Num(940), Num(1000), Num(1060), Num(1061), NotNumeric}
SourceChains == {0} \cup ClaimChains
DestChains == {0, EthChainId, NeoxChainId}
TxHashes == {EmptyString, Hex("tx0", FALSE), Hex("tx1", FALSE), Hex("tx1", TRUE), Hex("tx2", FALSE)}

Perturb(c) ==
    {[c EXCEPT !.messageId = x] : x \in MessageIds}
    \cup {[c EXCEPT !.bridger = x] : x \in Bridgers}
    \cup {[c EXCEPT !.amount = x] : x \in Amounts}
    \cup {[c EXCEPT !.timestamp = x] : x \in Timestamps}
    \cup {[c EXCEPT !.sourceChain = x] : x \in SourceChains}
    \cup {[c EXCEPT !.destChain = x] : x \in DestChains}
    \cup {[c EXCEPT !.txHash = x] : x \in TxHashes}

RECURSIVE Within(_)
Within(k) ==
    IF k = 0 THEN WellFormed
    ELSE LET W == Within(k - 1) IN W \cup UNION {Perturb(c) : c \in W}

Claims == Within(MaxDeviations)
RaceClaims == {ClaimA, ClaimB}

(***************************************************************************)
(* The handler of POST /api/nft/attestation.  pc names the await the       *)
(* request is suspended at.                                                *)
(***************************************************************************)
NoClaim == Claim(NoMessageId, EmptyString, 0, Num(0), 0, 0, EmptyString)

IdleRequest ==
    [pc |-> "idle", claim |-> NoClaim, status |-> 0, body |-> {}, signature |-> {},
     logIndex |-> -1, wrote |-> FALSE, fault |-> FALSE]

\* the handler order in which the record is written before the replay check
RecordBeforeCheck(pc) ==
    CASE pc = "verify" -> "sign"
      [] pc = "sign"   -> "record"
      [] pc = "record" -> "check"
      [] pc = "check"  -> "respond"

\* The order of the handler's last stages: replay check, sign, record, respond.
Successor(pc) ==
    CASE pc = "verify" -> "check"
      [] pc = "check"  -> "sign"
      [] pc = "sign"   -> "record"
      [] pc = "record" -> "respond"

\* res.status(code).json({ error }): a rejection carries no signature
Reject(q, code) == [q EXCEPT !.pc = "done", !.status = code, !.body = {}]

\* an awaited RPC or database call that throws
Throw(q, code) == [Reject(q, code) EXCEPT !.fault = TRUE]

\* res.json({ signature }) once the last stage is through, else on to the next await
Advance(q, next) ==
    IF next = "respond"
    THEN [q EXCEPT !.pc = "done", !.status = 200, !.body = q.signature]
    ELSE [q EXCEPT !.pc = next]

ReqKey(q) == Key(q.claim.txHash, q.logIndex, q.claim.sourceChain)

Issue(q, next) ==
    IF next = "respond" THEN [issued EXCEPT ![ReqKey(q)] = @ + 1] ELSE issued

\* EIP-712 typed data signed by the service key
TypedData(c) ==
    [messageId |-> c.messageId, bridger |-> c.bridger, amount |-> c.amount,
     timestamp |-> c.timestamp, sourceChain |-> c.sourceChain, destChain |-> c.destChain,
     chainId |-> c.sourceChain, verifyingContract |-> nftContractAddress(c.sourceChain)]

\* lines 166-187: field presence, configuration, then await getTransactionReceipt
Submit(r, bodies) ==
    /\ req[r].pc = "idle"
    /\ \E c \in bodies :
         LET q == [IdleRequest EXCEPT !.claim = c]
         IN  req' = [req EXCEPT ![r] =
                IF MissingFields(c) THEN Reject(q, 400)
                ELSE IF ~signerKey THEN Reject(q, 503)
                ELSE IF nftContractAddress(c.sourceChain) = ZeroAddress THEN Reject(q, 503)
                ELSE [q EXCEPT !.pc = "receipt"]]
    /\ UNCHANGED <<elseVars, storageKind, signerKey, nftContracts, rows, recStat, issued, relayVars>>

\* lines 193-207: the receipt arrives (or the call throws), sender check, await getBlock
ReceiptStep(r) ==
    /\ req[r].pc = "receipt"
    /\ \E rpc \in {"ok", "throws"} :
         LET q == req[r]
             found == getTransactionReceipt(SelectNetwork(q.claim.sourceChain), q.claim.txHash)
         IN  req' = [req EXCEPT ![r] =
                IF rpc = "throws" THEN Throw(q, 400)
                ELSE IF found = {} THEN Reject(q, 404)
                ELSE IF \E receipt \in found : SenderMismatch(receipt, q.claim) THEN Reject(q, 403)
                ELSE [q EXCEPT !.pc = "block"]]
    /\ UNCHANGED <<elseVars, storageKind, signerKey, nftContracts, rows, recStat, issued, relayVars>>

\* lines 207-281: the block arrives, timestamp, destination chain, log scan, then
\* await checkNftTransactionSigned
BlockStep(r) ==
    /\ req[r].pc = "block"
    /\ \E rpc \in {"ok", "null", "throws"} :
         LET q == req[r]
             net == SelectNetwork(q.claim.sourceChain)
             receipt == CHOOSE x \in getTransactionReceipt(net, q.claim.txHash) : TRUE
             block == getBlock(net, receipt.blockNumber)
             idx == validatedLogIndex(receipt, q.claim)
         IN  req' = [req EXCEPT ![r] =
                IF rpc = "throws" THEN Throw(q, 400)
                ELSE IF rpc = "null" THEN [Reject(q, 404) EXCEPT !.fault = TRUE]
                ELSE IF TimestampOutside(block.timestamp, q.claim.timestamp) THEN Reject(q, 400)
                ELSE IF derivedDestChain(q.claim.sourceChain) # q.claim.destChain THEN Reject(q, 400)
                ELSE IF idx = -1 THEN Reject(q, 404)
                ELSE Advance([q EXCEPT !.logIndex = idx], Successor("verify"))]
    /\ UNCHANGED <<elseVars, storageKind, signerKey, nftContracts, rows, recStat, issued, relayVars>>

\* lines 281-297: the replay check answers (a database error is caught as a
\* verification failure), then await signTypedData
CheckStep(r) ==
    /\ req[r].pc = "check"
    /\ \E dbOk \in BOOLEAN :
         /\ storageKind = "mem" => dbOk
         /\ LET q == req[r]
                next == Successor("check")
                exists == checkNftTransactionSigned(rows, toLowerCase(q.claim.txHash),
                                                    q.logIndex, q.claim.sourceChain)
            IN  /\ req' = [req EXCEPT ![r] =
                      IF ~dbOk THEN Throw(q, 400)
                      ELSE IF exists THEN Reject(q, 409)
                      ELSE Advance(q, next)]
                /\ issued' = IF dbOk /\ ~exists THEN Issue(q, next) ELSE issued
    /\ UNCHANGED <<elseVars, storageKind, signerKey, nftContracts, rows, recStat, relayVars>>

\* lines 297-332: signTypedData resolves, or rejects a value that is no uint256
SignStep(r) ==
    /\ req[r].pc = "sign"
    /\ LET q == req[r]
           next == Successor("sign")
       IN  IF ~q.claim.timestamp.num
           THEN /\ req' = [req EXCEPT ![r] = Reject(q, 500)]
                /\ issued' = issued
           ELSE /\ req' = [req EXCEPT ![r] =
                      Advance([q EXCEPT !.signature = {TypedData(q.claim)}], next)]
                /\ issued' = Issue(q, next)
    /\ UNCHANGED <<elseVars, storageKind, signerKey, nftContracts, rows, recStat, relayVars>>

\* lines 332-347: the insert resolves and the signature is returned, or it throws
\* and the outer catch answers 500
RecordStep(r) ==
    /\ req[r].pc = "record"
    /\ \E dbOk \in BOOLEAN :
         /\ storageKind = "mem" => dbOk
         /\ LET q == req[r]
                next == Successor("record")
                c == q.claim
                k == ReqKey(q)
                transaction ==
                    [txHash |-> toLowerCase(c.txHash), logIndex |-> q.logIndex,
                     sourceChain |-> c.sourceChain, bridger |-> toLowerCase(c.bridger),
                     messageId |-> c.messageId, amount |-> c.amount, id |-> <<>>]
                res == recordNftTransactionSigned(storageKind, rows, transaction, recStat[k].ok)
            IN  IF ~dbOk
                THEN /\ req' = [req EXCEPT ![r] = Throw(q, 500)]
                     /\ UNCHANGED <<rows, recStat, issued>>
                ELSE IF ~res.ok
                THEN /\ req' = [req EXCEPT ![r] = Reject(q, 500)]
                     /\ recStat' = [recStat EXCEPT ![k].dup = @ + 1]
                     /\ UNCHANGED <<rows, issued>>
                ELSE /\ req' = [req EXCEPT ![r] = Advance([q EXCEPT !.wrote = TRUE], next)]
                     /\ rows' = res.table
                     /\ recStat' = [recStat EXCEPT ![k].ok = @ + 1]
                     /\ issued' = Issue(q, next)
    /\ UNCHANGED <<elseVars, storageKind, signerKey, nftContracts, relayVars>>

\* the response has been delivered; the slot serves the next request
Reset(r) ==
    /\ req[r].pc = "done"
    /\ req' = [req EXCEPT ![r] = IdleRequest]
    /\ UNCHANGED <<elseVars, storageKind, signerKey, nftContracts, rows, recStat, issued, relayVars>>


(***************************************************************************)
(* The relayer (relayer.ts), the Ferry contracts it calls, and the         *)
(* client's manual claim.                                                  *)
(***************************************************************************)
MaxHeight == 3       \* blocks mined per chain
MaxEvents == 2       \* BridgeOutRequested events per source chain
MaxBalance == 2      \* relayer wallet balance, in wei
WINDOW == 100        \* lookback of a poll, in blocks

\* bridge traffic of the model runs Ethereum -> Neo X; the Neo X leg of a tick
\* polls a chain without bridge events
SourceNetworks == {"ETH"}
EventIds == SourceNetworks \X (1..MaxEvents)
IdOf(ev) == <<ev.net, ev.nonce>>
Other(net) == IF net = "ETH" THEN "NEOX" ELSE "ETH"
Max(a, b) == IF a > b THEN a ELSE b
Min(a, b) == IF a < b THEN a ELSE b

\* what every modelled bridge transfers; the Ferry numbers them per source chain
ArgsOf(ev) == BridgeOut(Alice, Alice, 100, 99, 1, ev.nonce)

\* Ferry.nativeFeeWei() of each chain
FerryNativeFeeWei == [ETH |-> 2, NEOX |-> 2]

\* relayer.ts computeMessageId: 7 packed fields
relayerComputeMessageId(srcChainId, dstChainId, srcFerry, nonce, from, toOnOther, amountOut) ==
    [h |-> <<srcChainId, dstChainId, srcFerry, nonce, from.v, toOnOther.v, amountOut>>,
     up |-> FALSE]

\* bridgeStorage.ts computeMessageId: 9 packed fields, the last one the native fee
clientComputeMessageId(srcChainId, dstChainId, srcFerry, nonce, from, toOnOther, amountIn, amountOut, nativeFee) ==
    [h |-> <<srcChainId, dstChainId, srcFerry, nonce, from.v, toOnOther.v,
             amountIn, amountOut, nativeFee>>,
     up |-> FALSE]

\* relayBridgeOut lines 257-265
RelayerMessageId(ev) ==
    relayerComputeMessageId(NETWORKS[ev.net].chainId, NETWORKS[Other(ev.net)].chainId,
                            FERRY_CONTRACTS[ev.net], ArgsOf(ev).nonce, ArgsOf(ev).from,
                            ArgsOf(ev).toOnOtherChain, ArgsOf(ev).amountOut)

\* handleBridge lines 218-233: nativeFee is the source Ferry's nativeFeeWei
ClientMessageId(ev) ==
    clientComputeMessageId(NETWORKS[ev.net].chainId, NETWORKS[Other(ev.net)].chainId,
                           FERRY_CONTRACTS[ev.net], ArgsOf(ev).nonce, ArgsOf(ev).from,
                           ArgsOf(ev).toOnOtherChain, ArgsOf(ev).amountIn,
                           ArgsOf(ev).amountOut, FerryNativeFeeWei[ev.net])

\* Ferry.fulfillBridgeIn(to, amount, messageId) payable: rejects an identifier it
\* has processed, and needs the fee
FerryAccepts(net, messageId, funds) ==
    /\ messageId \notin ferryProcessed[net]
    /\ funds >= FerryNativeFeeWei[net]

RECURSIVE SortByNonce(_)
SortByNonce(S) ==
    IF S = {} THEN <<>>
    ELSE LET m == CHOOSE e \in S : \A x \in S : e.nonce <= x.nonce
         IN  <<m>> \o SortByNonce(S \ {m})

\* ferry.queryFilter("BridgeOutRequested", fromBlock, toBlock)
queryFilter(net, fromBlock, toBlock) ==
    SortByNonce({e \in events : e.net = net /\ fromBlock <= e.block /\ e.block <= toBlock})

\* a lookback two blocks short of the window
ShortWindow(lastSeen, currentBlock) == Max(lastSeen, currentBlock - WINDOW + 2)

\* if (ethBlock > lastEthBlock)
NewBlocks(lastSeen, currentBlock) == currentBlock > lastSeen

\* const fromBlock = Math.max(lastEthBlock, ethBlock - 100)
FromBlock(lastSeen, currentBlock) == Max(lastSeen, currentBlock - WINDOW)

\* the has-check that never finds the identifier
NeverProcessed(processed, messageId) == FALSE

\* a relayer that takes itself to hold a signing key whatever the environment says
AlwaysKeyed(key) == FALSE

\* !process.env.RELAYER_PRIVATE_KEY
ObserveOnly(key) == ~key

\* processedMessages.has(messageId)
AlreadyProcessed(processed, messageId) == messageId \in processed

IdleTick ==
    [pc |-> "idle", net |-> "ETH", cur |-> 0, fromBlock |-> 0, batch |-> <<>>,
     i |-> 0, bal |-> 0, status |-> "none"]

NoHistory ==
    [handled |-> 0, attempts |-> 0, failed |-> FALSE, shortfall |-> FALSE, skipped |-> FALSE]

\* for (const event of events) await relayBridgeOut(...): the handlers that return
\* before their first await run back to back.  Returns the index of the event whose
\* handler is suspended at getBalance (or past the end), and the set and the history
\* as the skipped handlers leave them.
RECURSIVE RunLoop(_, _, _, _)
RunLoop(batch, i, processed, h) ==
    IF i > Len(batch) THEN [i |-> i, processed |-> processed, hist |-> h]
    ELSE LET id == IdOf(batch[i])
             messageId == RelayerMessageId(batch[i])
             h1 == [h EXCEPT ![id].handled = Min(@ + 1, 2)]
         IN  IF AlreadyProcessed(processed, messageId)
             THEN RunLoop(batch, i + 1, processed, [h1 EXCEPT ![id].skipped = TRUE])
             ELSE IF ObserveOnly(relayerKey)
             THEN RunLoop(batch, i + 1, processed \cup {messageId}, h1)
             ELSE [i |-> i, processed |-> processed, hist |-> h1]

\* a poll that moves the cursor as soon as the batch is read, before its events
\* are through
AdvanceFirst(t, k, start, processed, h) ==
    LET loop == RunLoop(k.batch, start, processed, h)
    IN  /\ processedMessages' = loop.processed
        /\ hist' = loop.hist
        /\ lastBlock' = [lastBlock EXCEPT ![k.net] = k.cur]
        /\ tick' = [tick EXCEPT ![t] =
                IF loop.i <= Len(k.batch) THEN [k EXCEPT !.pc = "getBalance", !.i = loop.i]
                ELSE IF k.net = "ETH"
                THEN [IdleTick EXCEPT !.pc = "getBlockNumber", !.net = "NEOX"]
                ELSE IdleTick]

\* after a handler returned: on with the batch; once it is through, the cursor
\* moves and the next chain is polled
Continue(t, k, start, processed, h) ==
    LET loop == RunLoop(k.batch, start, processed, h)
    IN  /\ processedMessages' = loop.processed
        /\ hist' = loop.hist
        /\ IF loop.i > Len(k.batch)
           THEN /\ lastBlock' = [lastBlock EXCEPT ![k.net] = k.cur]
                /\ tick' = [tick EXCEPT ![t] =
                        IF k.net = "ETH"
                        THEN [IdleTick EXCEPT !.pc = "getBlockNumber", !.net = "NEOX"]
                        ELSE IdleTick]
           ELSE /\ lastBlock' = lastBlock
                /\ tick' = [tick EXCEPT ![t] = [k EXCEPT !.pc = "getBalance", !.i = loop.i]]

\* an exception that leaves relayBridgeOut and lands in the catch of the tick
Propagate(t, k, processed, h) ==
    /\ processedMessages' = processed
    /\ hist' = h
    /\ lastBlock' = lastBlock
    /\ tick' = [tick EXCEPT ![t] = IdleTick]

\* catch (error) of relayBridgeOut: logged, the handler returns and the loop goes on
Caught(t, k, processed, h) == Continue(t, k, k.i + 1, processed, h)

\* the interval fires
TickFire(t) ==
    /\ tick[t].pc = "idle"
    /\ tick' = [tick EXCEPT ![t] = [IdleTick EXCEPT !.pc = "getBlockNumber"]]
    /\ UNCHANGED <<elseVars, attVars, height, events, ferryProcessed, balance, fulfilled, relayerKey, processedMessages, lastBlock, hist, clientBridges>>

\* lines 339-341 / 359-361: getBlockNumber resolves; a throw ends the tick in the catch
GetBlockNumber(t) ==
    /\ tick[t].pc = "getBlockNumber"
    /\ \E up \in BOOLEAN :
       LET k == tick[t]
           cur == height[k.net]
       IN  tick' = [tick EXCEPT ![t] =
                IF ~up THEN IdleTick
                ELSE IF NewBlocks(lastBlock[k.net], cur)
                THEN [k EXCEPT !.pc = "queryFilter", !.cur = cur,
                               !.fromBlock = FromBlock(lastBlock[k.net], cur)]
                ELSE IF k.net = "ETH"
                THEN [IdleTick EXCEPT !.pc = "getBlockNumber", !.net = "NEOX"]
                ELSE IdleTick]
    /\ UNCHANGED <<elseVars, attVars, height, events, ferryProcessed, balance, fulfilled, relayerKey, processedMessages, lastBlock, hist, clientBridges>>

\* lines 342-356: queryFilter resolves and the batch is walked
QueryFilter(t) ==
    /\ tick[t].pc = "queryFilter"
    /\ \E up \in BOOLEAN :
       LET k == tick[t]
       IN  IF ~up
           THEN /\ tick' = [tick EXCEPT ![t] = IdleTick]
                /\ UNCHANGED <<processedMessages, lastBlock, hist>>
           ELSE Continue(t, [k EXCEPT !.batch = queryFilter(k.net, k.fromBlock, k.cur)],
                         1, processedMessages, hist)
    /\ UNCHANGED <<elseVars, attVars, height, events, ferryProcessed, balance, fulfilled, relayerKey, clientBridges>>

\* lines 287-299: getBalance resolves
GetBalance(t) ==
    /\ tick[t].pc = "getBalance"
    /\ \E up \in BOOLEAN :
       LET k == tick[t]
           ev == k.batch[k.i]
           dst == Other(k.net)
       IN  IF ~up
           THEN Caught(t, k, processedMessages, hist)
           ELSE IF balance[dst] = 0
           THEN Continue(t, k, k.i + 1, processedMessages \cup {RelayerMessageId(ev)},
                         [hist EXCEPT ![IdOf(ev)].shortfall = TRUE])
           ELSE /\ tick' = [tick EXCEPT ![t] = [k EXCEPT !.pc = "nativeFeeWei", !.bal = balance[dst]]]
                /\ UNCHANGED <<processedMessages, lastBlock, hist>>
    /\ UNCHANGED <<elseVars, attVars, height, events, ferryProcessed, balance, fulfilled, relayerKey, clientBridges>>

\* lines 299-309: nativeFeeWei resolves
NativeFeeWei(t) ==
    /\ tick[t].pc = "nativeFeeWei"
    /\ \E up \in BOOLEAN :
       LET k == tick[t]
           ev == k.batch[k.i]
           dst == Other(k.net)
       IN  IF ~up
           THEN Caught(t, k, processedMessages, hist)
           ELSE IF k.bal < FerryNativeFeeWei[dst]
           THEN Continue(t, k, k.i + 1, processedMessages \cup {RelayerMessageId(ev)},
                         [hist EXCEPT ![IdOf(ev)].shortfall = TRUE])
           ELSE /\ tick' = [tick EXCEPT ![t] = [k EXCEPT !.pc = "fulfillBridgeIn"]]
                /\ UNCHANGED <<processedMessages, lastBlock, hist>>
    /\ UNCHANGED <<elseVars, attVars, height, events, ferryProcessed, balance, fulfilled, relayerKey, clientBridges>>

\* lines 309-315: fulfillBridgeIn is sent with the fee attached.  It throws (the RPC
\* fails or the call is refused), or is mined: executed by the Ferry, or reverted.
FulfillBridgeIn(t) ==
    /\ tick[t].pc = "fulfillBridgeIn"
    /\ \E outcome \in {"ok", "reverted", "throws"} :
         LET k == tick[t]
             ev == k.batch[k.i]
             id == IdOf(ev)
             dst == Other(k.net)
             messageId == RelayerMessageId(ev)
             h1 == [hist EXCEPT ![id].attempts = @ + 1]
         IN  /\ outcome = "ok" => FerryAccepts(dst, messageId, balance[dst])
             /\ IF outcome = "throws"
                THEN /\ Caught(t, k, processedMessages, [h1 EXCEPT ![id].failed = TRUE])
                     /\ UNCHANGED <<ferryProcessed, balance, fulfilled>>
                ELSE /\ tick' = [tick EXCEPT ![t] = [k EXCEPT !.pc = "wait", !.status = outcome]]
                     /\ hist' = h1
                     /\ UNCHANGED <<processedMessages, lastBlock>>
                     /\ IF outcome = "ok"
                        THEN /\ ferryProcessed' = [ferryProcessed EXCEPT ![dst] = @ \cup {messageId}]
                             /\ balance' = [balance EXCEPT ![dst] = @ - FerryNativeFeeWei[dst]]
                             /\ fulfilled' = [fulfilled EXCEPT ![id] = @ + 1]
                        ELSE UNCHANGED <<ferryProcessed, balance, fulfilled>>
    /\ UNCHANGED <<elseVars, attVars, height, events, relayerKey, clientBridges>>

\* lines 315-321: tx.wait() resolves; only a receipt with status 1 marks the id
Wait(t) ==
    /\ tick[t].pc = "wait"
    /\ LET k == tick[t]
           ev == k.batch[k.i]
       IN  IF k.status = "ok"
           THEN Continue(t, k, k.i + 1, processedMessages \cup {RelayerMessageId(ev)}, hist)
           ELSE Continue(t, k, k.i + 1, processedMessages, [hist EXCEPT ![IdOf(ev)].failed = TRUE])
    /\ UNCHANGED <<elseVars, attVars, height, events, ferryProcessed, balance, fulfilled, relayerKey, clientBridges>>

\* the process is restarted: the module state is lost, the environment may differ
Restart ==
    /\ relayerKey' \in BOOLEAN
    /\ processedMessages' = {}
    /\ lastBlock' = [n \in Networks |-> 0]
    /\ tick' = [t \in DOMAIN tick |-> IdleTick]
    /\ hist' = [id \in EventIds |-> NoHistory]
    /\ UNCHANGED <<elseVars, attVars, height, events, ferryProcessed, balance, fulfilled, clientBridges>>

\* a block without bridge events is mined
MineBlock(net) ==
    /\ height[net] < MaxHeight
    /\ height' = [height EXCEPT ![net] = @ + 1]
    /\ UNCHANGED <<elseVars, attVars, events, ferryProcessed, balance, fulfilled, relayerKey, processedMessages, lastBlock, tick, hist, clientBridges>>

\* Bridge.tsx handleBridge: bridgeOut is mined, the event is emitted, and the
\* client stores the PendingBridge under its own messageId
HandleBridge(net) ==
    /\ height[net] < MaxHeight
    /\ LET nonce == Cardinality({e \in events : e.net = net}) + 1
       IN  /\ nonce <= MaxEvents
           /\ events' = events \cup {[net |-> net, block |-> height[net] + 1, nonce |-> nonce]}
           /\ clientBridges' = [clientBridges EXCEPT ![<<net, nonce>>] = "pending"]
    /\ height' = [height EXCEPT ![net] = @ + 1]
    /\ UNCHANGED <<elseVars, attVars, ferryProcessed, balance, fulfilled, relayerKey, processedMessages, lastBlock, tick, hist>>

\* Bridge.tsx handleClaim: the user sends fulfillBridgeIn with the stored messageId
\* from a funded wallet; once mined the bridge is marked claimed.  A refused
\* transaction leaves everything as it was.
HandleClaim(id) ==
    /\ clientBridges[id] = "pending"
    /\ LET ev == CHOOSE e \in events : IdOf(e) = id
           dst == Other(ev.net)
           messageId == ClientMessageId(ev)
       IN  /\ FerryAccepts(dst, messageId, FerryNativeFeeWei[dst])
           /\ ferryProcessed' = [ferryProcessed EXCEPT ![dst] = @ \cup {messageId}]
    /\ fulfilled' = [fulfilled EXCEPT ![id] = @ + 1]
    /\ clientBridges' = [clientBridges EXCEPT ![id] = "claimed"]
    /\ UNCHANGED <<elseVars, attVars, height, events, balance, relayerKey, processedMessages, lastBlock, tick, hist>>

\* the operator funds the relayer wallet
TopUp(net) ==
    /\ balance[net] < MaxBalance
    /\ balance' = [balance EXCEPT ![net] = @ + 1]
    /\ UNCHANGED <<elseVars, attVars, height, events, ferryProcessed, fulfilled, relayerKey, processedMessages, lastBlock, tick, hist, clientBridges>>

\* the relayer as startRelayer leaves it, before any block
RelayStart ==
    /\ height = [n \in Networks |-> 0]
    /\ events = {}
    /\ ferryProcessed = [n \in Networks |-> {}]
    /\ balance = [n \in Networks |-> 0]
    /\ fulfilled = [id \in EventIds |-> 0]
    /\ processedMessages = {}
    /\ lastBlock = [n \in Networks |-> 0]
    /\ tick = [t \in {1} |-> IdleTick]
    /\ hist = [id \in EventIds |-> NoHistory]
    /\ clientBridges = [id \in EventIds |-> "none"]

RelayIdle == RelayStart /\ relayerKey = FALSE

AttIdle ==
    /\ storageKind = "mem"
    /\ signerKey = FALSE
    /\ nftContracts = [n \in Networks |-> ZeroAddress]
    /\ rows = {}
    /\ recStat = [k \in Keys |-> [ok |-> 0, dup |-> 0]]
    /\ issued = [k \in Keys |-> 0]
    /\ req = [r \in 1..1 |-> IdleRequest]

\* nothing computed yet
IdIdle == idA = <<>> /\ idB = <<>> /\ idOut = <<>>

\* no NFT contract deployed
NftIdle ==
    /\ signer = ZeroAddress
    /\ mintFee = 0
    /\ minted = {}
    /\ messageIdToTokenId = <<>>
    /\ tokenIdCounter = 0
    /\ tokenMetadata = <<>>
    /\ owners = <<>>
    /\ signerUpdated = {}
    /\ nftLast = <<>>

\* no governance deployed
GovIdle ==
    /\ pforkBalance = <<>>
    /\ govBlockNumber = 0
    /\ quorum = 0
    /\ executionDelay = 0
    /\ proposals = <<>>
    /\ proposalIdCounter = 0
    /\ executedProposals = 0
    /\ govLast = <<>>

\* no vault deployed
VaultIdle ==
    /\ vaultBlockNumber = 0
    /\ stateVerifier = ZeroAddress
    /\ priorityFeeManager = ZeroAddress
    /\ exitDelay = 0
    /\ priorityExitDelay = 0
    /\ deposits = <<>>
    /\ exitRequests = <<>>
    /\ exitIdCounter = 0
    /\ usedCommitments = {}
    /\ unitsAvailable = <<>>
    /\ transfers = <<>>
    /\ vaultLast = <<>>

\* no scan model running
ScanIdle ==
    /\ scanHeight = 0
    /\ lastSeenBlock = 0
    /\ poll = <<>>
    /\ scanned = {}
    /\ firstPolled = -1
    /\ latestPolled = -1
    /\ gapsWithin = TRUE

\* no bond vault deployed
BondIdle ==
    /\ sequencerInfo = <<>>
    /\ activeSequencerList = <<>>
    /\ sequencerIndex = <<>>
    /\ minBondAmount = 0
    /\ unstakeDelay = 0
    /\ totalBonded = 0
    /\ slashedPool = 0
    /\ pforkOf = <<>>
    /\ bondTime = 0
    /\ minBondChanged = FALSE

ElseIdle == IdIdle /\ NftIdle /\ GovIdle /\ VaultIdle /\ ScanIdle /\ BondIdle

RelayInit == AttIdle /\ RelayStart /\ relayerKey \in BOOLEAN /\ ElseIdle

RelayNext ==
    \/ TickFire(1)
    \/ GetBlockNumber(1)
    \/ QueryFilter(1)
    \/ GetBalance(1)
    \/ NativeFeeWei(1)
    \/ FulfillBridgeIn(1)
    \/ Wait(1)
    \/ Restart
    \/ \E net \in Networks : MineBlock(net)
    \/ \E net \in SourceNetworks : HandleBridge(net) \/ TopUp(Other(net))
    \/ \E id \in EventIds : HandleClaim(id)

RelaySpec == RelayInit /\ [][RelayNext]_vars

\* one process lifetime of the relayer, with the ledgers it polls
LifetimeNext ==
    \/ TickFire(1)
    \/ GetBlockNumber(1)
    \/ QueryFilter(1)
    \/ GetBalance(1)
    \/ NativeFeeWei(1)
    \/ FulfillBridgeIn(1)
    \/ Wait(1)
    \/ \E net \in Networks : MineBlock(net)
    \/ \E net \in SourceNetworks : HandleBridge(net) \/ TopUp(Other(net))

LifetimeSpec == RelayInit /\ [][LifetimeNext]_vars

\* setInterval(async () => {...}, 15000) fires whether or not the earlier
\* callback has returned: up to MaxTicks callbacks are in flight, each new one
\* in the lowest free slot
MaxTicks == 2

OverlapFire(t) ==
    /\ \A s \in 1..(t - 1) : tick[s].pc # "idle"
    /\ TickFire(t)

OverlapInit ==
    /\ AttIdle
    /\ ElseIdle
    /\ relayerKey = TRUE
    /\ height = [n \in Networks |-> 0]
    /\ events = {}
    /\ ferryProcessed = [n \in Networks |-> {}]
    /\ balance = [n \in Networks |-> 0]
    /\ fulfilled = [id \in EventIds |-> 0]
    /\ processedMessages = {}
    /\ lastBlock = [n \in Networks |-> 0]
    /\ tick = [t \in 1..MaxTicks |-> IdleTick]
    /\ hist = [id \in EventIds |-> NoHistory]
    /\ clientBridges = [id \in EventIds |-> "none"]

OverlapNext ==
    \/ \E t \in 1..MaxTicks :
          \/ OverlapFire(t)
          \/ GetBlockNumber(t)
          \/ QueryFilter(t)
          \/ GetBalance(t)
          \/ NativeFeeWei(t)
          \/ FulfillBridgeIn(t)
          \/ Wait(t)
    \/ \E net \in SourceNetworks : HandleBridge(net) \/ TopUp(Other(net))

OverlapSpec == OverlapInit /\ [][OverlapNext]_vars

(***************************************************************************)
(* The cursor and the scanned ranges of pollBridges for one chain, on a    *)
(* chain long enough for the lookback to bind.  The events of a range are  *)
(* relayed between the read of the range and the move of the cursor; what  *)
(* happens to them does not touch the cursor.                              *)
(***************************************************************************)
MaxScanHeight == 203    \* the last block of the chain explored
MaxNearBlocks == 2      \* blocks mined one at a time after each long stretch

IdlePoll == [pc |-> "idle", cur |-> 0, fromBlock |-> 0]

Distance(a, b) == IF a > b THEN a - b ELSE b - a

\* the chain grows: by one block, or by a stretch of blocks
ScanMine(n) ==
    /\ scanHeight + n <= MaxScanHeight
    /\ n = 1 => scanHeight % WINDOW < MaxNearBlocks
    /\ scanHeight' = scanHeight + n
    /\ UNCHANGED <<notScan, lastSeenBlock, poll, scanned, firstPolled, latestPolled, gapsWithin>>

\* the interval fires; the callback takes the lowest free slot
PollFire(t) ==
    /\ poll[t].pc = "idle"
    /\ \A s \in 1..(t - 1) : poll[s].pc # "idle"
    /\ poll' = [poll EXCEPT ![t] = [IdlePoll EXCEPT !.pc = "getBlockNumber"]]
    /\ UNCHANGED <<notScan, scanHeight, lastSeenBlock, scanned, firstPolled, latestPolled, gapsWithin>>

\* lines 339-341: getBlockNumber resolves; a throw ends the tick in the catch
PollGetBlockNumber(t, up) ==
    /\ poll[t].pc = "getBlockNumber"
    /\ poll' = [poll EXCEPT ![t] =
            IF up /\ NewBlocks(lastSeenBlock, scanHeight)
            THEN [pc |-> "queryFilter", cur |-> scanHeight,
                  fromBlock |-> FromBlock(lastSeenBlock, scanHeight)]
            ELSE IdlePoll]
    /\ UNCHANGED <<notScan, scanHeight, lastSeenBlock, scanned, firstPolled, latestPolled, gapsWithin>>

\* line 342: queryFilter(fromBlock, ethBlock) resolves; a throw ends the tick
PollQueryFilter(t, up) ==
    /\ poll[t].pc = "queryFilter"
    /\ IF up
       THEN /\ scanned' = scanned \cup (poll[t].fromBlock .. poll[t].cur)
            /\ poll' = [poll EXCEPT ![t].pc = "relay"]
       ELSE /\ poll' = [poll EXCEPT ![t] = IdlePoll]
            /\ UNCHANGED scanned
    /\ UNCHANGED <<notScan, scanHeight, lastSeenBlock, firstPolled, latestPolled, gapsWithin>>

\* line 356: the batch is through, lastEthBlock = ethBlock
PollAdvance(t) ==
    /\ poll[t].pc = "relay"
    /\ lastSeenBlock' = poll[t].cur
    /\ firstPolled' = IF firstPolled = -1 THEN poll[t].cur ELSE firstPolled
    /\ latestPolled' = poll[t].cur
    /\ gapsWithin' = (gapsWithin /\ (latestPolled = -1 \/ Distance(poll[t].cur, latestPolled) <= WINDOW))
    /\ poll' = [poll EXCEPT ![t] = IdlePoll]
    /\ UNCHANGED <<notScan, scanHeight, scanned>>

ScanInit ==
    /\ AttIdle
    /\ RelayIdle
    /\ IdIdle
    /\ NftIdle
    /\ GovIdle
    /\ VaultIdle
    /\ BondIdle
    /\ scanHeight = 0
    /\ lastSeenBlock = 0
    /\ poll = [t \in 1..MaxTicks |-> IdlePoll]
    /\ scanned = {}
    /\ firstPolled = -1
    /\ latestPolled = -1
    /\ gapsWithin = TRUE

ScanNext ==
    \/ \E n \in {1, WINDOW - 1, WINDOW, WINDOW + 1} : ScanMine(n)
    \/ \E t \in 1..MaxTicks :
          \/ PollFire(t)
          \/ \E up \in BOOLEAN : PollGetBlockNumber(t, up)
          \/ \E up \in BOOLEAN : PollQueryFilter(t, up)
          \/ PollAdvance(t)

ScanSpec == ScanInit /\ [][ScanNext]_vars

AttInit ==
    /\ storageKind \in {"postgres", "mem"}
    /\ signerKey \in BOOLEAN
    /\ nftContracts \in [Networks -> {ZeroAddress, "nft"}]
    /\ rows = {}
    /\ recStat = [k \in Keys |-> [ok |-> 0, dup |-> 0]]
    /\ issued = [k \in Keys |-> 0]

Init ==
    /\ AttInit
    /\ req = [r \in 1..NReq |-> IdleRequest]
    /\ RelayIdle
    /\ ElseIdle

Next ==
    \E r \in 1..NReq :
        \/ Submit(r, RaceClaims)
        \/ ReceiptStep(r)
        \/ BlockStep(r)
        \/ CheckStep(r)
        \/ SignStep(r)
        \/ RecordStep(r)
        \/ Reset(r)

Spec == Init /\ [][Next]_vars

(***************************************************************************)
(* The frontend's way to a signature: handleBridge stores a PendingBridge, *)
(* the NFT page maps it to a QuantumBridge, handleMint posts the request.  *)
(* Ledger time is in seconds, Date.now() in milliseconds.                  *)
(***************************************************************************)
MaxMintDelay == 2    \* seconds from the block of the bridge to the client's Date.now()
EtherUnit == 1000    \* the factor of ethers.parseEther (10^18), scaled to the model's integers

NativeFees == {0, 1, 2}     \* what Ferry.nativeFeeWei() may have returned to the page

\* ethers.parseEther(text): the decimal text read as ether, returned in wei
parseEther(amount) == amount * EtherUnit

\* Date.now() when tx.wait() has resolved, delay seconds after the block
DateNow(blockTimestamp, delay) == (blockTimestamp + delay) * 1000

\* Bridge.tsx handleBridge lines 203-249: the first BridgeOutRequested log of the
\* receipt, the identifier over nine fields with the page's nativeFee, Date.now()
FirstBridgeOut(receipt) ==
    LET idx == CHOOSE i \in 1..Len(receipt.logs) :
                   /\ receipt.logs[i].name = "BridgeOutRequested"
                   /\ \A j \in 1..(i - 1) : receipt.logs[j].name # "BridgeOutRequested"
    IN  receipt.logs[idx].args

PendingBridge(net, tx, nativeFee, now) ==
    LET event == FirstBridgeOut(LedgerReceipts[net][tx])
    IN  [messageId |-> clientComputeMessageId(NETWORKS[net].chainId, NETWORKS[Other(net)].chainId,
                                              FERRY_CONTRACTS[net], event.nonce, event.from,
                                              event.toOnOtherChain, event.amountIn,
                                              event.amountOut, nativeFee),
         from |-> event.from,
         toOnOtherChain |-> event.toOnOtherChain,
         amountOut |-> event.amountOut,
         sourceChain |-> net,
         destChain |-> Other(net),
         sourceTxHash |-> Hex(tx, FALSE),
         nonce |-> event.nonce,
         timestamp |-> now,
         status |-> "pending"]

\* part_007 lines 278-288: the stored bridge as the NFT page shows it
QuantumBridge(b) ==
    [messageId |-> b.messageId, timestamp |-> b.timestamp, amount |-> b.amountOut,
     sourceChain |-> b.sourceChain, destChain |-> b.destChain, signature |-> b.sourceTxHash]

\* part_007 handleMint lines 375-391: the body of the attestation request
MintBody(bridge, account) ==
    Claim(bridge.messageId, account, parseEther(bridge.amount), Num(bridge.timestamp),
          IF bridge.sourceChain = "ETH" THEN 1 ELSE 47763,
          IF bridge.destChain = "ETH" THEN 1 ELSE 47763,
          bridge.signature)

\* the requests the page builds for the bridges of the ledger, minted by the
\* account that bridged
MintBodies ==
    { MintBody(QuantumBridge(PendingBridge(net, tx, fee,
                    DateNow(getBlock(net, LedgerReceipts[net][tx].blockNumber).timestamp, d))),
               LedgerReceipts[net][tx].from) :
        <<net, tx>> \in {<<"ETH", "tx1">>, <<"NEOX", "tx2">>},
        fee \in NativeFees, d \in 0..MaxMintDelay }

\* handleMint posts its request
HandleMint(r) == Submit(r, MintBodies)

\* one request at a time, over the wide claim set
VerifyInit ==
    /\ AttInit
    /\ req = [r \in 1..1 |-> IdleRequest]
    /\ RelayIdle
    /\ ElseIdle

VerifyNext ==
    \/ Submit(1, Claims)
    \/ ReceiptStep(1)
    \/ BlockStep(1)
    \/ CheckStep(1)
    \/ SignStep(1)
    \/ RecordStep(1)
    \/ Reset(1)

VerifySpec == VerifyInit /\ [][VerifyNext]_vars

\* the endpoint with the frontend among its callers
MintNext == VerifyNext \/ HandleMint(1)

MintSpec == VerifyInit /\ [][MintNext]_vars

(***************************************************************************)
(* computeMessageId as a function of its fields: the three variants are    *)
(* applied to two field tuples, the second differing from the first in at  *)
(* most one field.  Addresses come in both letter cases.                   *)
(***************************************************************************)
IdChains == {EthChainId, NeoxChainId}
IdFerries == {"ferryEth", "ferryNeox"}
IdNonces == {7, 8}
IdAddresses == {Alice, Hex("alice", FALSE), Bob}
IdAmounts == {99, 100}
IdFees == {0, 1}

FieldTuples ==
    [srcChainId : IdChains, dstChainId : IdChains, srcFerry : IdFerries, nonce : IdNonces,
     from : IdAddresses, toOnOther : IdAddresses, amountIn : IdAmounts,
     amountOut : IdAmounts, nativeFee : IdFees]

OneFieldAway(a) ==
    {a} \cup {[a EXCEPT !.srcChainId = x] : x \in IdChains}
        \cup {[a EXCEPT !.dstChainId = x] : x \in IdChains}
        \cup {[a EXCEPT !.srcFerry = x] : x \in IdFerries}
        \cup {[a EXCEPT !.nonce = x] : x \in IdNonces}
        \cup {[a EXCEPT !.from = x] : x \in IdAddresses}
        \cup {[a EXCEPT !.toOnOther = x] : x \in IdAddresses}
        \cup {[a EXCEPT !.amountIn = x] : x \in IdAmounts}
        \cup {[a EXCEPT !.amountOut = x] : x \in IdAmounts}
        \cup {[a EXCEPT !.nativeFee = x] : x \in IdFees}

Attestation9(f) ==
    computeMessageId(f.srcChainId, f.dstChainId, f.srcFerry, f.nonce, f.from, f.toOnOther,
                     f.amountIn, f.amountOut, f.nativeFee)
Client9(f) ==
    clientComputeMessageId(f.srcChainId, f.dstChainId, f.srcFerry, f.nonce, f.from,
                           f.toOnOther, f.amountIn, f.amountOut, f.nativeFee)
Relayer7(f) ==
    relayerComputeMessageId(f.srcChainId, f.dstChainId, f.srcFerry, f.nonce, f.from,
                            f.toOnOther, f.amountOut)

\* the variant named kind, applied to a tuple
ComputeAs(kind, f) ==
    IF kind = "relayer" THEN Relayer7(f)
    ELSE IF kind = "client" THEN Client9(f)
    ELSE Attestation9(f)

Computed(kind) ==
    [kind |-> kind, a |-> ComputeAs(kind, idA), b |-> ComputeAs(kind, idB),
     repeated |-> FALSE, again |-> NoMessageId]

\* routes.ts computeMessageId is called on both tuples
ComputeAttestation ==
    /\ idOut = <<>>
    /\ idOut' = Computed("attestation")
    /\ UNCHANGED <<notId, idA, idB>>

\* bridgeStorage.ts computeMessageId is called on both tuples
ComputeClient ==
    /\ idOut = <<>>
    /\ idOut' = Computed("client")
    /\ UNCHANGED <<notId, idA, idB>>

\* relayer.ts computeMessageId is called on both tuples
ComputeRelayer ==
    /\ idOut = <<>>
    /\ idOut' = Computed("relayer")
    /\ UNCHANGED <<notId, idA, idB>>

\* the same variant is called on the first tuple once more
ComputeAgain ==
    /\ idOut # <<>>
    /\ ~idOut.repeated
    /\ idOut' = [idOut EXCEPT !.repeated = TRUE, !.again = ComputeAs(idOut.kind, idA)]
    /\ UNCHANGED <<notId, idA, idB>>

IdInit ==
    /\ AttIdle
    /\ RelayIdle
    /\ idA \in FieldTuples
    /\ idB \in OneFieldAway(idA)
    /\ idOut = <<>>
    /\ NftIdle
    /\ GovIdle
    /\ VaultIdle
    /\ ScanIdle
    /\ BondIdle

IdNext == ComputeAttestation \/ ComputeClient \/ ComputeRelayer \/ ComputeAgain

IdSpec == IdInit /\ [][IdNext]_vars

(***************************************************************************)
(* QuantumSignatureNFT.sol, the EIP-712 contract.  A signature is the key  *)
(* that made it and the typed data it was made over; ECDSA.recover gives   *)
(* the key's address for that data and an unrelated address for any other. *)
(* A reverted transaction leaves the contract as it was.                   *)
(***************************************************************************)
MintValues == {0, 1}     \* msg.value and mintFee

NftOwner == "deployer"
NftSigners == {"signer1", "signer2"}
NftAccounts == {"alice", "bob"}
NftKeys == NftSigners      \* the keys that sign: the configured one, and one replaced or never configured
NftMessageIds == {"m1", "m2"}
NftDomain == [chainId |-> EthChainId, verifyingContract |-> "nft"]

\* the arguments of mintSignature but the signature
MintRequests ==
    [messageId : NftMessageIds, bridger : NftAccounts, amount : {99},
     timestamp : {1000}, sourceChain : {EthChainId}, destChain : {NeoxChainId}]

\* what a signature offered with request m was made over: m under the contract's
\* domain, or typed data that differs from it in the domain or in one field
SignedData(m) ==
    {<<NftDomain, m>>, <<[NftDomain EXCEPT !.chainId = NeoxChainId], m>>}
        \cup {<<NftDomain, [m EXCEPT !.messageId = x]>> : x \in NftMessageIds}
        \cup {<<NftDomain, [m EXCEPT !.bridger = x]>> : x \in NftAccounts}
        \cup {<<NftDomain, [m EXCEPT !.amount = 100]>>}

\* _hashTypedDataV4(keccak256(abi.encode(MINT_TYPEHASH, ...))): injective on the
\* domain and the six fields
Digest(domain, m) == <<domain, m.messageId, m.bridger, m.amount, m.timestamp, m.sourceChain, m.destChain>>

\* wallet.signTypedData(domain, types, message) with a key
SignTypedData(key, domain, m) == [by |-> key, digest |-> Digest(domain, m)]

\* a recovery that trusts the key named in the signature, whatever was signed
RecoverUnbound(digest, signature) == signature.by

\* ECDSA.recover(digest, signature)
Recover(digest, signature) ==
    IF signature.digest = digest THEN signature.by ELSE "unrelated"

\* a contract that has forgotten what it minted
NeverMinted(mintedIds, messageId) == FALSE

\* minted[messageId]
IsMinted(mintedIds, messageId) == messageId \in mintedIds

\* mapping[k] = v
Put(f, k, v) == [x \in DOMAIN f \cup {k} |-> IF x = k THEN v ELSE f[x]]

\* mintSignature(messageId, bridger, amount, timestamp, sourceChain, destChain,
\* signature) sent by caller with value
MintSignature(caller, m, value, signature) ==
    LET ok == /\ ~IsMinted(minted, m.messageId)
              /\ m.bridger = caller
              /\ value >= mintFee
              /\ Recover(Digest(NftDomain, m), signature) = signer
        tokenId == tokenIdCounter
    IN  /\ signer # ZeroAddress
        /\ nftLast' = [op |-> "mintSignature", caller |-> caller, request |-> m,
                       value |-> value, signature |-> signature, ok |-> ok]
        /\ IF ok
           THEN /\ minted' = minted \cup {m.messageId}
                /\ tokenIdCounter' = tokenIdCounter + 1
                /\ messageIdToTokenId' = Put(messageIdToTokenId, m.messageId, tokenId)
                /\ tokenMetadata' = Put(tokenMetadata, tokenId, m)
                /\ owners' = Put(owners, tokenId, m.bridger)
           ELSE UNCHANGED <<minted, tokenIdCounter, messageIdToTokenId, tokenMetadata, owners>>
        /\ UNCHANGED <<notNft, signer, mintFee, signerUpdated>>

\* setSigner(_signer) onlyOwner
SetSigner(caller, newSigner) ==
    LET ok == caller = NftOwner /\ newSigner # ZeroAddress
    IN  /\ signer # ZeroAddress
        /\ nftLast' = [op |-> "setSigner", caller |-> caller, request |-> newSigner,
                       value |-> 0, signature |-> <<>>, ok |-> ok]
        /\ IF ok
           THEN signer' = newSigner /\ signerUpdated' = signerUpdated \cup {signer}
           ELSE UNCHANGED <<signer, signerUpdated>>
        /\ UNCHANGED <<notNft, mintFee, minted, messageIdToTokenId, tokenIdCounter, tokenMetadata, owners>>

\* setMintFee(_mintFee) onlyOwner
SetMintFee(caller, fee) ==
    LET ok == caller = NftOwner
    IN  /\ signer # ZeroAddress
        /\ nftLast' = [op |-> "setMintFee", caller |-> caller, request |-> fee,
                       value |-> 0, signature |-> <<>>, ok |-> ok]
        /\ mintFee' = IF ok THEN fee ELSE mintFee
        /\ UNCHANGED <<notNft, signer, minted, messageIdToTokenId, tokenIdCounter, tokenMetadata, owners, signerUpdated>>

\* constructor(_signer, _mintFee)
NftInit ==
    /\ AttIdle
    /\ RelayIdle
    /\ IdIdle
    /\ GovIdle
    /\ VaultIdle
    /\ ScanIdle
    /\ BondIdle
    /\ signer \in NftSigners
    /\ mintFee \in MintValues
    /\ minted = {}
    /\ messageIdToTokenId = <<>>
    /\ tokenIdCounter = 0
    /\ tokenMetadata = <<>>
    /\ owners = <<>>
    /\ signerUpdated = {}
    /\ nftLast = <<>>

NftNext ==
    \/ \E caller \in NftAccounts, m \in MintRequests, value \in MintValues :
       \E key \in NftKeys, data \in SignedData(m) :
            MintSignature(caller, m, value, SignTypedData(key, data[1], data[2]))
    \/ \E caller \in {NftOwner, "mallory"}, newSigner \in NftSigners \cup {ZeroAddress} :
            SetSigner(caller, newSigner)
    \/ \E caller \in {NftOwner, "mallory"}, fee \in MintValues : SetMintFee(caller, fee)

NftSpec == NftInit /\ [][NftNext]_vars

(***************************************************************************)
(* QGovernance.sol with the PFORK balances it reads.  Time is counted in   *)
(* blocks: block.timestamp advances by one unit per block.  A reverted     *)
(* transaction leaves the contract as it was.                              *)
(***************************************************************************)
MaxProposals == 1       \* proposals created
GovSupply == 2          \* PFORK in circulation
MaxGovBlock == 102      \* the last block of the governance chain explored
MaxBusyBlocks == 2      \* consecutive blocks with transactions, before and after a voting period

MIN_VOTING_PERIOD == 100
votingPeriod == MIN_VOTING_PERIOD
proposalThreshold == 1

GovOwner == "deployer"
GovAccounts == {"alice", "bob"}
GovCallers == GovAccounts \cup {GovOwner}
Quorums == {1, 2}
ExecutionDelays == {0, 1}

\* block.timestamp of a block
BlockTimestamp(number) == number

\* pfork.balanceOf(account)
balanceOf(account) == IF account \in DOMAIN pforkBalance THEN pforkBalance[account] ELSE 0

\* state(proposalId) for an existing proposal
ProposalStateOf(p) ==
    IF p.cancelled THEN "Cancelled"
    ELSE IF p.executed THEN "Executed"
    ELSE IF govBlockNumber <= p.endBlock
    THEN IF govBlockNumber < p.startBlock THEN "Pending" ELSE "Active"
    ELSE IF p.forVotes + p.againstVotes < quorum THEN "Defeated"
    ELSE IF p.forVotes <= p.againstVotes THEN "Defeated"
    ELSE IF p.executionTime > 0 THEN "Queued"
    ELSE "Succeeded"

\* castVote: weight = pfork.balanceOf(msg.sender)
VoteWeight(p, voter) == balanceOf(voter)

GovCall(op, caller, id, arg, ok) ==
    [op |-> op, caller |-> caller, id |-> id, arg |-> arg, ok |-> ok]

\* propose(targets, calldatas) with one target
Propose(caller) ==
    LET ok == balanceOf(caller) >= proposalThreshold
        proposalId == proposalIdCounter
    IN  /\ proposalIdCounter < MaxProposals
        /\ govLast' = GovCall("propose", caller, proposalId, TRUE, ok)
        /\ IF ok
           THEN /\ proposalIdCounter' = proposalIdCounter + 1
                /\ proposals' = Put(proposals, proposalId,
                        [id |-> proposalId, proposer |-> caller,
                         startBlock |-> govBlockNumber, endBlock |-> govBlockNumber + votingPeriod,
                         executionTime |-> 0, forVotes |-> 0, againstVotes |-> 0,
                         executed |-> FALSE, cancelled |-> FALSE,
                         hasVoted |-> {}, votingPower |-> <<>>])
           ELSE UNCHANGED <<proposalIdCounter, proposals>>
        /\ UNCHANGED <<notGov, pforkBalance, govBlockNumber, quorum, executionDelay, executedProposals>>

\* castVote(proposalId, support)
CastVote(caller, proposalId, support) ==
    LET exists == proposalId \in DOMAIN proposals
        p == proposals[proposalId]
        weight == VoteWeight(p, caller)
        ok == /\ exists
              /\ govBlockNumber >= p.startBlock
              /\ govBlockNumber <= p.endBlock
              /\ caller \notin p.hasVoted
              /\ ~p.cancelled
              /\ weight > 0
    IN  /\ govLast' = GovCall("castVote", caller, proposalId, support, ok)
        /\ IF ok
           THEN proposals' = [proposals EXCEPT ![proposalId] =
                    [p EXCEPT !.hasVoted = @ \cup {caller},
                              !.votingPower = Put(@, caller, weight),
                              !.forVotes = IF support THEN @ + weight ELSE @,
                              !.againstVotes = IF support THEN @ ELSE @ + weight]]
           ELSE UNCHANGED proposals
        /\ UNCHANGED <<notGov, pforkBalance, govBlockNumber, quorum, executionDelay, proposalIdCounter, executedProposals>>

\* execute(proposalId); success says whether the calls to the targets succeed
Execute(caller, proposalId, success) ==
    LET exists == proposalId \in DOMAIN proposals
        p == proposals[proposalId]
        ready == exists /\ ProposalStateOf(p) = "Succeeded"
        queues == ready /\ executionDelay > 0 /\ p.executionTime = 0
        runs == /\ ready
                /\ ~queues
                /\ executionDelay > 0 => BlockTimestamp(govBlockNumber) >= p.executionTime
                /\ success
    IN  /\ govLast' = GovCall("execute", caller, proposalId, success, queues \/ runs)
        /\ IF queues
           THEN /\ proposals' = [proposals EXCEPT ![proposalId].executionTime =
                                    BlockTimestamp(govBlockNumber) + executionDelay]
                /\ UNCHANGED executedProposals
           ELSE IF runs
           THEN /\ proposals' = [proposals EXCEPT ![proposalId].executed = TRUE]
                /\ executedProposals' = executedProposals + 1
           ELSE UNCHANGED <<proposals, executedProposals>>
        /\ UNCHANGED <<notGov, pforkBalance, govBlockNumber, quorum, executionDelay, proposalIdCounter>>

\* cancel(proposalId)
Cancel(caller, proposalId) ==
    LET exists == proposalId \in DOMAIN proposals
        p == proposals[proposalId]
        ok == /\ exists
              /\ ~p.executed
              /\ ~p.cancelled
              /\ caller = p.proposer \/ caller = GovOwner
    IN  /\ govLast' = GovCall("cancel", caller, proposalId, TRUE, ok)
        /\ IF ok
           THEN proposals' = [proposals EXCEPT ![proposalId].cancelled = TRUE]
           ELSE UNCHANGED proposals
        /\ UNCHANGED <<notGov, pforkBalance, govBlockNumber, quorum, executionDelay, proposalIdCounter, executedProposals>>

\* pfork.transfer(to, amount) sent by a holder
PforkTransfer(from, to, amount) ==
    /\ from # to
    /\ amount <= balanceOf(from)
    /\ pforkBalance' = [pforkBalance EXCEPT ![from] = @ - amount, ![to] = @ + amount]
    /\ UNCHANGED <<notGov, govBlockNumber, quorum, executionDelay, proposals, proposalIdCounter, executedProposals, govLast>>

\* the chain grows: by one block, or by a voting period of blocks in which no
\* transaction is sent to the contract
GovMine(n) ==
    /\ govBlockNumber + n <= MaxGovBlock
    /\ n = 1 => govBlockNumber % votingPeriod < MaxBusyBlocks
    /\ govBlockNumber' = govBlockNumber + n
    /\ UNCHANGED <<notGov, pforkBalance, quorum, executionDelay, proposals, proposalIdCounter, executedProposals, govLast>>

\* constructor(_pfork, _proposalThreshold, _votingPeriod, _quorum, _executionDelay)
GovInit ==
    /\ AttIdle
    /\ RelayIdle
    /\ IdIdle
    /\ NftIdle
    /\ VaultIdle
    /\ ScanIdle
    /\ BondIdle
    /\ pforkBalance \in {b \in [GovAccounts -> 0..GovSupply] : b["alice"] + b["bob"] = GovSupply}
    /\ govBlockNumber = 0
    /\ quorum \in Quorums
    /\ executionDelay \in ExecutionDelays
    /\ proposals = <<>>
    /\ proposalIdCounter = 0
    /\ executedProposals = 0
    /\ govLast = <<>>

GovNext ==
    \/ \E caller \in GovAccounts : Propose(caller)
    \/ \E caller \in GovAccounts, id \in 0..(MaxProposals - 1), support \in BOOLEAN :
            CastVote(caller, id, support)
    \/ \E id \in 0..(MaxProposals - 1), success \in BOOLEAN : Execute("alice", id, success)
    \/ \E caller \in GovCallers, id \in 0..(MaxProposals - 1) : Cancel(caller, id)
    \/ \E from, to \in GovAccounts, amount \in 1..GovSupply : PforkTransfer(from, to, amount)
    \/ \E n \in {1, votingPeriod} : GovMine(n)

GovSpec == GovInit /\ [][GovNext]_vars

(***************************************************************************)
(* QBridgeVault.sol with the QPriorityFeeManager it calls, for one asset   *)
(* (PFORK).  A reverted transaction leaves both contracts as they were.    *)
(* The counters and records that no function reads back (totalDeposits,    *)
(* totalExits, _depositRecords, _userExits) are not kept.                  *)
(***************************************************************************)
MaxExits == 2           \* exit requests created
MaxVaultBlock == 2      \* the last block of the vault's chain explored
MaxDeposits == 1        \* PFORK a user holds in the vault at a time
MaxUnits == 1           \* priority units bought

VaultOwner == "deployer"
VaultUsers == {"alice"}            \* the accounts that deposit
VaultCallers == {"alice", "bob"}   \* the accounts that send exit transactions
StateVerifierAddress == "verifier"
PriorityFeeManagerAddress == "manager"
ExitDelays == {1, 2}
PriorityExitDelays == {0, 1}
ExitAmount == 1

\* keccak256(abi.encodePacked(msg.sender, asset, amount, exitId, block.number))
DepositCommitment(user, amount, exitId, number) == <<user, amount, exitId, number>>

\* _exitRequests[exitId]: an unset entry reads as zeroes
ExitRequestOf(exitId) ==
    IF exitId \in DOMAIN exitRequests THEN exitRequests[exitId]
    ELSE [user |-> ZeroAddress, amount |-> 0, requestBlock |-> 0, unlockBlock |-> 0,
          depositCommitment |-> <<>>, completed |-> FALSE, isPriority |-> FALSE]

\* QPriorityFeeManager.priorityScore(user, batchId)
priorityScore(user, batchId) ==
    IF <<user, batchId>> \in DOMAIN unitsAvailable THEN unitsAvailable[<<user, batchId>>] ELSE 0

AlwaysUnlocked(number, unlockBlock) == TRUE

\* block.number >= request.unlockBlock, block.number >= priorityUnlock
Unlocked(number, unlockBlock) == number >= unlockBlock

\* _verifyExitProof: valid says whether the proof decodes to a non-empty list
\* of hashes that verifyInclusion accepts
VerifyExitProof(request, valid) == request.depositCommitment \notin usedCommitments /\ valid

ExitCall(op, caller, exitId, ok) == [op |-> op, caller |-> caller, exitId |-> exitId, ok |-> ok]

\* _transferAsset(request.asset, request.user, request.amount)
TransferAsset(exitId, request) ==
    [exitId |-> exitId, to |-> request.user, amount |-> request.amount,
     number |-> vaultBlockNumber]

\* deposit(pfork, amount)
Deposit(caller, amount) ==
    /\ amount > 0
    /\ deposits[caller] + amount <= MaxDeposits
    /\ deposits' = [deposits EXCEPT ![caller] = @ + amount]
    /\ UNCHANGED <<notVault, vaultBlockNumber, stateVerifier, priorityFeeManager, exitDelay, priorityExitDelay, exitRequests, exitIdCounter, usedCommitments, unitsAvailable, transfers, vaultLast>>

\* requestExit(pfork, amount)
RequestExit(caller, amount) ==
    LET ok == amount > 0 /\ deposits[caller] >= amount
        exitId == exitIdCounter
    IN  /\ exitIdCounter < MaxExits
        /\ ok
        /\ exitIdCounter' = exitIdCounter + 1
        /\ exitRequests' = Put(exitRequests, exitId,
                [user |-> caller, amount |-> amount,
                 requestBlock |-> vaultBlockNumber,
                 unlockBlock |-> vaultBlockNumber + exitDelay,
                 depositCommitment |-> DepositCommitment(caller, amount, exitId, vaultBlockNumber),
                 completed |-> FALSE, isPriority |-> FALSE])
        /\ deposits' = [deposits EXCEPT ![caller] = @ - amount]
        /\ UNCHANGED <<notVault, vaultBlockNumber, stateVerifier, priorityFeeManager, exitDelay, priorityExitDelay, usedCommitments, unitsAvailable, transfers, vaultLast>>

\* completeExit(exitId, proof, leafData)
CompleteExit(caller, exitId, valid) ==
    LET request == ExitRequestOf(exitId)
        ok == /\ stateVerifier # ZeroAddress
              /\ request.user = caller
              /\ ~request.completed
              /\ Unlocked(vaultBlockNumber, request.unlockBlock)
              /\ VerifyExitProof(request, valid)
    IN  /\ vaultLast' = ExitCall("completeExit", caller, exitId, ok)
        /\ IF ok
           THEN /\ usedCommitments' = usedCommitments \cup {request.depositCommitment}
                /\ exitRequests' = [exitRequests EXCEPT ![exitId].completed = TRUE]
                /\ transfers' = Append(transfers, TransferAsset(exitId, request))
           ELSE UNCHANGED <<usedCommitments, exitRequests, transfers>>
        /\ UNCHANGED <<notVault, vaultBlockNumber, stateVerifier, priorityFeeManager, exitDelay, priorityExitDelay, deposits, exitIdCounter, unitsAvailable>>

\* priorityExit(exitId, proof, leafData); sequencer says whether the fee
\* manager's onlySequencer modifier lets the vault through
PriorityExit(caller, exitId, valid, sequencer) ==
    LET request == ExitRequestOf(exitId)
        batchId == request.requestBlock
        ok == /\ stateVerifier # ZeroAddress
              /\ request.user = caller
              /\ ~request.completed
              /\ priorityFeeManager # ZeroAddress
              /\ priorityScore(caller, batchId) > 0
              /\ sequencer
              /\ priorityScore(caller, batchId) >= 1
              /\ Unlocked(vaultBlockNumber, request.requestBlock + priorityExitDelay)
              /\ VerifyExitProof(request, valid)
    IN  /\ vaultLast' = ExitCall("priorityExit", caller, exitId, ok)
        /\ IF ok
           THEN /\ unitsAvailable' = [unitsAvailable EXCEPT ![<<caller, batchId>>] = @ - 1]
                /\ usedCommitments' = usedCommitments \cup {request.depositCommitment}
                /\ exitRequests' = [exitRequests EXCEPT ![exitId].completed = TRUE,
                                                        ![exitId].isPriority = TRUE]
                /\ transfers' = Append(transfers, TransferAsset(exitId, request))
           ELSE UNCHANGED <<unitsAvailable, usedCommitments, exitRequests, transfers>>
        /\ UNCHANGED <<notVault, vaultBlockNumber, stateVerifier, priorityFeeManager, exitDelay, priorityExitDelay, deposits, exitIdCounter>>

\* QPriorityFeeManager.buyPriority(batchHint, amount) for one unit
BuyPriority(caller, batchHint) ==
    /\ Cardinality(DOMAIN unitsAvailable) < MaxUnits
    /\ unitsAvailable' = Put(unitsAvailable, <<caller, batchHint>>, priorityScore(caller, batchHint) + 1)
    /\ UNCHANGED <<notVault, vaultBlockNumber, stateVerifier, priorityFeeManager, exitDelay, priorityExitDelay, deposits, exitRequests, exitIdCounter, usedCommitments, transfers, vaultLast>>

\* setStateVerifier(_stateVerifier), onlyOwner
SetStateVerifier(caller, address) ==
    /\ caller = VaultOwner
    /\ stateVerifier' = address
    /\ UNCHANGED <<notVault, vaultBlockNumber, priorityFeeManager, exitDelay, priorityExitDelay, deposits, exitRequests, exitIdCounter, usedCommitments, unitsAvailable, transfers, vaultLast>>

\* setPriorityFeeManager(_priorityFeeManager), onlyOwner
SetPriorityFeeManager(caller, address) ==
    /\ caller = VaultOwner
    /\ priorityFeeManager' = address
    /\ UNCHANGED <<notVault, vaultBlockNumber, stateVerifier, exitDelay, priorityExitDelay, deposits, exitRequests, exitIdCounter, usedCommitments, unitsAvailable, transfers, vaultLast>>

\* setExitDelay(newDelay), onlyOwner
SetExitDelay(caller, newDelay) ==
    /\ caller = VaultOwner
    /\ exitDelay' = newDelay
    /\ UNCHANGED <<notVault, vaultBlockNumber, stateVerifier, priorityFeeManager, priorityExitDelay, deposits, exitRequests, exitIdCounter, usedCommitments, unitsAvailable, transfers, vaultLast>>

\* setPriorityExitDelay(newDelay), onlyOwner
SetPriorityExitDelay(caller, newDelay) ==
    /\ caller = VaultOwner
    /\ priorityExitDelay' = newDelay
    /\ UNCHANGED <<notVault, vaultBlockNumber, stateVerifier, priorityFeeManager, exitDelay, deposits, exitRequests, exitIdCounter, usedCommitments, unitsAvailable, transfers, vaultLast>>

\* the chain grows by one block
VaultMine ==
    /\ vaultBlockNumber < MaxVaultBlock
    /\ vaultBlockNumber' = vaultBlockNumber + 1
    /\ UNCHANGED <<notVault, stateVerifier, priorityFeeManager, exitDelay, priorityExitDelay, deposits, exitRequests, exitIdCounter, usedCommitments, unitsAvailable, transfers, vaultLast>>

\* constructor(_pfork, _exitDelay, _priorityExitDelay)
VaultInit ==
    /\ AttIdle
    /\ RelayIdle
    /\ IdIdle
    /\ NftIdle
    /\ GovIdle
    /\ ScanIdle
    /\ BondIdle
    /\ vaultBlockNumber = 0
    /\ stateVerifier = ZeroAddress
    /\ priorityFeeManager = ZeroAddress
    /\ exitDelay \in ExitDelays
    /\ priorityExitDelay \in PriorityExitDelays
    /\ deposits = [u \in VaultUsers |-> 0]
    /\ exitRequests = <<>>
    /\ exitIdCounter = 0
    /\ usedCommitments = {}
    /\ unitsAvailable = <<>>
    /\ transfers = <<>>
    /\ vaultLast = <<>>

VaultNext ==
    \/ \E caller \in VaultUsers : Deposit(caller, ExitAmount)
    \/ \E caller \in VaultUsers : RequestExit(caller, ExitAmount)
    \/ \E caller \in VaultCallers, exitId \in 0..(MaxExits - 1), valid \in BOOLEAN :
            CompleteExit(caller, exitId, valid)
    \/ \E caller \in VaultCallers, exitId \in 0..(MaxExits - 1), valid, sequencer \in BOOLEAN :
            PriorityExit(caller, exitId, valid, sequencer)
    \/ \E caller \in VaultUsers, batchHint \in 0..MaxVaultBlock : BuyPriority(caller, batchHint)
    \/ SetStateVerifier(VaultOwner, StateVerifierAddress)
    \/ SetPriorityFeeManager(VaultOwner, PriorityFeeManagerAddress)
    \/ \E newDelay \in ExitDelays : SetExitDelay(VaultOwner, newDelay)
    \/ \E newDelay \in PriorityExitDelays : SetPriorityExitDelay(VaultOwner, newDelay)
    \/ VaultMine

VaultSpec == VaultInit /\ [][VaultNext]_vars

(***************************************************************************)
(* QSequencerBondVault: PFORK staking of the sequencers.  slasher and      *)
(* governance are the deployer, as the constructor leaves them.            *)
(***************************************************************************)
MaxBondTime == 2
BondSupply == 3
ConstructedMinBond == 2

BondOwner == "owner"
Stakers == {"alice", "bob"}
BondAmounts == 1..BondSupply
MinBonds == {1, ConstructedMinBond, 3}
UnstakeDelays == {0, 1}

NoSequencer == [bonded |-> 0, pendingUnstakeAmount |-> 0, unstakeUnlockTime |-> 0, active |-> FALSE]

\* info.active = true; _sequencerIndex[who] = length; _activeSequencerList.push(who)
Activate(who) ==
    /\ sequencerIndex' = [sequencerIndex EXCEPT ![who] = Len(activeSequencerList)]
    /\ activeSequencerList' = Append(activeSequencerList, who)

\* _removeFromActiveList: the last entry takes the place of the removed one
removeFromActiveList(sequencer) ==
    LET index == sequencerIndex[sequencer]
        lastIndex == Len(activeSequencerList) - 1
        lastSequencer == activeSequencerList[lastIndex + 1]
        moved == IF index # lastIndex
                 THEN [activeSequencerList EXCEPT ![index + 1] = lastSequencer]
                 ELSE activeSequencerList
        indexMoved == IF index # lastIndex
                      THEN [sequencerIndex EXCEPT ![lastSequencer] = index]
                      ELSE sequencerIndex
    IN  /\ lastIndex >= 0
        /\ activeSequencerList' = SubSeq(moved, 1, lastIndex)
        /\ sequencerIndex' = [indexMoved EXCEPT ![sequencer] = 0]

stake(caller, amount) ==
    LET info == sequencerInfo[caller]
        bonded == info.bonded + amount
        activates == ~info.active /\ bonded >= minBondAmount
    IN  /\ amount > 0
        /\ pforkOf[caller] >= amount
        /\ pforkOf' = [pforkOf EXCEPT ![caller] = @ - amount]
        /\ totalBonded' = totalBonded + amount
        /\ sequencerInfo' = [sequencerInfo EXCEPT ![caller] =
                                [info EXCEPT !.bonded = bonded,
                                             !.active = info.active \/ activates]]
        /\ IF activates THEN Activate(caller)
                        ELSE UNCHANGED <<activeSequencerList, sequencerIndex>>
        /\ UNCHANGED <<minBondAmount, unstakeDelay, slashedPool, bondTime, minBondChanged, notBond>>

requestUnstake(caller, amount) ==
    LET info == sequencerInfo[caller]
        leaves == info.bonded - amount < minBondAmount /\ info.active
    IN  /\ info.bonded >= amount
        /\ info.pendingUnstakeAmount = 0
        /\ amount > 0
        /\ sequencerInfo' = [sequencerInfo EXCEPT ![caller] =
                                [info EXCEPT !.pendingUnstakeAmount = amount,
                                             !.unstakeUnlockTime = bondTime + unstakeDelay,
                                             !.active = info.active /\ ~leaves]]
        /\ IF leaves THEN removeFromActiveList(caller)
                     ELSE UNCHANGED <<activeSequencerList, sequencerIndex>>
        /\ UNCHANGED <<minBondAmount, unstakeDelay, totalBonded, slashedPool, pforkOf, bondTime,
                       minBondChanged, notBond>>

executeUnstake(caller) ==
    LET info == sequencerInfo[caller]
        amount == info.pendingUnstakeAmount
    IN  /\ amount > 0
        /\ bondTime >= info.unstakeUnlockTime
        /\ info.bonded >= amount
        /\ totalBonded >= amount
        /\ sequencerInfo' = [sequencerInfo EXCEPT ![caller] =
                                [info EXCEPT !.bonded = @ - amount,
                                             !.pendingUnstakeAmount = 0,
                                             !.unstakeUnlockTime = 0]]
        /\ totalBonded' = totalBonded - amount
        /\ pforkOf' = [pforkOf EXCEPT ![caller] = @ + amount]
        /\ UNCHANGED <<activeSequencerList, sequencerIndex, minBondAmount, unstakeDelay,
                       slashedPool, bondTime, minBondChanged, notBond>>

cancelUnstake(caller) ==
    LET info == sequencerInfo[caller]
        activates == ~info.active /\ info.bonded >= minBondAmount
    IN  /\ info.pendingUnstakeAmount > 0
        /\ sequencerInfo' = [sequencerInfo EXCEPT ![caller] =
                                [info EXCEPT !.active = info.active \/ activates,
                                             !.pendingUnstakeAmount = 0,
                                             !.unstakeUnlockTime = 0]]
        /\ IF activates THEN Activate(caller)
                        ELSE UNCHANGED <<activeSequencerList, sequencerIndex>>
        /\ UNCHANGED <<minBondAmount, unstakeDelay, totalBonded, slashedPool, pforkOf, bondTime,
                       minBondChanged, notBond>>

slash(caller, sequencer, amount) ==
    LET info == sequencerInfo[sequencer]
        bonded == info.bonded - amount
        leaves == bonded < minBondAmount /\ info.active
    IN  /\ caller = BondOwner
        /\ info.bonded >= amount
        /\ totalBonded' = totalBonded - amount
        /\ slashedPool' = slashedPool + amount
        /\ sequencerInfo' = [sequencerInfo EXCEPT ![sequencer] =
                                [info EXCEPT !.bonded = bonded,
                                             !.active = info.active /\ ~leaves,
                                             !.pendingUnstakeAmount =
                                                 IF @ > bonded THEN bonded ELSE @]]
        /\ IF leaves THEN removeFromActiveList(sequencer)
                     ELSE UNCHANGED <<activeSequencerList, sequencerIndex>>
        /\ UNCHANGED <<minBondAmount, unstakeDelay, pforkOf, bondTime, minBondChanged, notBond>>

setMinBondAmount(caller, newMinBond) ==
    /\ caller = BondOwner
    /\ minBondAmount' = newMinBond
    /\ minBondChanged' = (minBondChanged \/ newMinBond # minBondAmount)
    /\ UNCHANGED <<sequencerInfo, activeSequencerList, sequencerIndex, unstakeDelay, totalBonded,
                   slashedPool, pforkOf, bondTime, notBond>>

setUnstakeDelay(caller, newDelay) ==
    /\ caller = BondOwner
    /\ unstakeDelay' = newDelay
    /\ UNCHANGED <<sequencerInfo, activeSequencerList, sequencerIndex, minBondAmount, totalBonded,
                   slashedPool, pforkOf, bondTime, minBondChanged, notBond>>

\* time passes on the chain
BondMine ==
    /\ bondTime < MaxBondTime
    /\ bondTime' = bondTime + 1
    /\ UNCHANGED <<sequencerInfo, activeSequencerList, sequencerIndex, minBondAmount, unstakeDelay,
                   totalBonded, slashedPool, pforkOf, minBondChanged, notBond>>

BondInit ==
    /\ AttIdle
    /\ RelayIdle
    /\ IdIdle
    /\ NftIdle
    /\ GovIdle
    /\ VaultIdle
    /\ ScanIdle
    /\ sequencerInfo = [s \in Stakers |-> NoSequencer]
    /\ activeSequencerList = <<>>
    /\ sequencerIndex = [s \in Stakers |-> 0]
    /\ minBondAmount = ConstructedMinBond
    /\ unstakeDelay \in UnstakeDelays
    /\ totalBonded = 0
    /\ slashedPool = 0
    /\ pforkOf = [s \in Stakers |-> BondSupply]
    /\ bondTime = 0
    /\ minBondChanged = FALSE

BondNext ==
    \/ \E caller \in Stakers, amount \in BondAmounts : stake(caller, amount)
    \/ \E caller \in Stakers, amount \in BondAmounts : requestUnstake(caller, amount)
    \/ \E caller \in Stakers : executeUnstake(caller)
    \/ \E caller \in Stakers : cancelUnstake(caller)
    \/ \E sequencer \in Stakers, amount \in BondAmounts : slash(BondOwner, sequencer, amount)
    \/ \E newMinBond \in MinBonds : setMinBondAmount(BondOwner, newMinBond)
    \/ \E newDelay \in UnstakeDelays : setUnstakeDelay(BondOwner, newDelay)
    \/ BondMine

BondSpec == BondInit /\ [][BondNext]_vars

(***************************************************************************)
(* Properties.                                                             *)
(***************************************************************************)

\* C1: for every BridgeOutRequested event the number of successful
\* fulfillBridgeIn executions on the destination chain never exceeds one, over
\* relayer ticks, restarts and manual claims.
C1_SettledOnce == \A id \in EventIds : fulfilled[id] <= 1

\* C2: for a fixed (txHash, logIndex, sourceChain) at most one request is
\* answered 200 with a signature, under either storage implementation.
C2_OneSignaturePerTriple == \A k \in Keys : issued[k] <= 1

\* C3: a request answered with a rejection carries no signature and has written
\* no record.
C3_RejectionWritesNothing ==
    \A r \in DOMAIN req :
        (req[r].pc = "done" /\ req[r].status # 200) =>
            (req[r].body = {} /\ ~req[r].wrote)

\* a request rejected as already attested while the table holds the record
C3_Witness ==
    \E r \in DOMAIN req :
        /\ req[r].pc = "done"
        /\ req[r].status = 409
        /\ rows # {}
        /\ ~req[r].wrote

\* the ledger of a chain id: only the two bridged chains have one
LedgerOf(chainId) ==
    IF chainId = EthChainId THEN {"ETH"}
    ELSE IF chainId = NeoxChainId THEN {"NEOX"}
    ELSE {}

\* the claim is backed by a BridgeOutRequested log of the claimed source chain
Backed(c) ==
    \E net \in LedgerOf(c.sourceChain) :
    \E receipt \in getTransactionReceipt(net, c.txHash) :
    \E i \in 1..Len(receipt.logs) :
        LET l == receipt.logs[i]
        IN  /\ l.address.v = FERRY_CONTRACTS[net]
            /\ l.name = "BridgeOutRequested"
            /\ toLowerCase(receipt.from) = toLowerCase(c.bridger)
            /\ toLowerCase(l.args.from) = toLowerCase(c.bridger)
            /\ l.args.amountOut = c.amount
            /\ toLowerCase(computeMessageId(NETWORKS[net].chainId, c.destChain,
                                            FERRY_CONTRACTS[net], l.args.nonce, l.args.from,
                                            l.args.toOnOtherChain, l.args.amountIn,
                                            l.args.amountOut, l.args.pforkFeePaid))
                 = toLowerCase(c.messageId)
            /\ c.destChain = NETWORKS[Other(net)].chainId
            /\ c.timestamp.num
            /\ Abs(getBlock(net, receipt.govBlockNumber).timestamp - c.timestamp.n)
                 <= TimestampTolerance

\* C4: whenever a signature is returned, the receipt of the claimed txHash on the
\* claimed source chain holds a BridgeOutRequested log of that chain's Ferry that
\* matches bridger, amount, messageId, destChain and timestamp.
C4_SignatureBacked ==
    \A r \in DOMAIN req :
        (req[r].pc = "done" /\ req[r].status = 200) => Backed(req[r].claim)

\* C5: for a fixed triple at most one record is ever created: no two stored rows
\* share a triple and no second creation succeeds.
C5_OneRecordPerTriple ==
    /\ \A a, b \in rows : RowKey(a) = RowKey(b) => a = b
    /\ \A k \in Keys : recStat[k].ok <= 1

\* C6: of two record calls for one triple exactly one succeeds and the other is
\* rejected as a duplicate.
C6_SecondRecordRejected ==
    \A k \in Keys :
        recStat[k].ok + recStat[k].dup >= 2 =>
            (recStat[k].ok = 1 /\ recStat[k].dup = recStat[k].ok + recStat[k].dup - 1)

\* C7: a valid request processed in parallel with identical ones is answered 200
\* or 409, never another status such as 500 (no RPC or database fault involved).
C7_OnlyOkOrConflict ==
    \A r \in DOMAIN req :
        (req[r].pc = "done" /\ req[r].logIndex >= 0 /\ ~req[r].fault) =>
            req[r].status \in {200, 409}

\* the handler of event id goes past the has-check in this step: it is suspended
\* at getBalance, its first ledger call
ReachesLedger(id) ==
    /\ tick'[1].pc = "getBalance"
    /\ IdOf(tick'[1].batch[tick'[1].i]) = id
    /\ (tick[1].pc # "getBalance" \/ tick[1].i # tick'[1].i)

\* C8 as stated: an event handled twice in one process lifetime is submitted
\* once; no later handling submits it again.
C8_ExactlyOneSubmission ==
    \A id \in EventIds : hist[id].handled >= 2 => hist[id].attempts <= 1

\* C8: a handling that starts with the event's identifier in processedMessages
\* returns at the has-check, without any ledger call.
C8_ProcessedIsSkipped ==
    [][\A e \in events :
         ReachesLedger(IdOf(e)) => RelayerMessageId(e) \notin processedMessages]_vars

\* an event fulfilled once by the relayer whose later handling was skipped
C8_Witness ==
    \E e \in events :
        /\ hist[IdOf(e)].skipped
        /\ hist[IdOf(e)].attempts = 1
        /\ fulfilled[IdOf(e)] = 1
        /\ RelayerMessageId(e) \in processedMessages

\* C9: an event whose fulfilment failed, and whose identifier is therefore not
\* in processedMessages, is covered by every later poll of its chain, so that it
\* is submitted again.
C9_FailedEventRescanned ==
    \A e \in events :
        ( /\ tick[1].pc = "queryFilter"
          /\ tick[1].net = e.net
          /\ hist[IdOf(e)].failed
          /\ RelayerMessageId(e) \notin processedMessages
          /\ RelayerMessageId(e) \notin ferryProcessed[Other(e.net)] )
        => (tick[1].fromBlock <= e.block /\ e.block <= tick[1].cur)

\* C10: an event skipped for a fee shortfall is taken to the ledger when it is
\* handled again while the wallet covers the fee.
C10_RetriedAfterTopUp ==
    [][\A e \in events :
         ( /\ hist'[IdOf(e)].handled > hist[IdOf(e)].handled
           /\ hist[IdOf(e)].shortfall
           /\ hist[IdOf(e)].attempts = 0
           /\ balance[Other(e.net)] >= FerryNativeFeeWei[Other(e.net)] )
         => ReachesLedger(IdOf(e))]_vars

\* C11: while no relayer key is configured no handler goes past the key check
\* (no balance or fee read, no submission), and every event handled in this
\* lifetime has its identifier in processedMessages.
C11_ObserveOnly ==
    ~relayerKey =>
        /\ tick[1].pc \notin {"getBalance", "nativeFeeWei", "fulfillBridgeIn", "wait"}
        /\ \A e \in events :
              /\ hist[IdOf(e)].attempts = 0
              /\ hist[IdOf(e)].handled >= 1 => RelayerMessageId(e) \in processedMessages

\* an event scanned and marked seen by a relayer without a key
C11_Witness ==
    /\ ~relayerKey
    /\ \E e \in events :
          /\ hist[IdOf(e)].handled >= 1
          /\ RelayerMessageId(e) \in processedMessages
          /\ fulfilled[IdOf(e)] = 0

\* the tick is inside the handler of one event, between two of its awaits
InHandler(k) == k.pc \in {"getBalance", "nativeFeeWei", "fulfillBridgeIn", "wait"}

\* C12: when the handler of an event ends, whatever its outcome (an exception
\* included), the tick goes on: the next event of the batch that is not yet in
\* processedMessages is handled, or the batch is through and the cursor is set.
\* The timer is never cancelled: an idle relayer can always fire its next tick.
C12_TickGoesOn ==
    /\ [](tick[1].pc = "idle" => ENABLED TickFire(1))
    /\ [][ ( /\ InHandler(tick[1])
             /\ ~(InHandler(tick'[1]) /\ tick'[1].i = tick[1].i) )
           => LET k == tick[1]
                  n == IF InHandler(tick'[1]) THEN tick'[1].i ELSE Len(k.batch) + 1
              IN  /\ \A j \in (k.i + 1)..(n - 1) :
                        RelayerMessageId(k.batch[j]) \in processedMessages'
                  /\ IF InHandler(tick'[1])
                     THEN tick'[1].pc = "getBalance" /\ tick'[1].batch = k.batch
                     ELSE lastBlock'[k.net] = k.cur ]_vars

\* the submission for the first event of a batch threw, and the tick is handling
\* the second event of that batch
C12_Witness ==
    /\ tick[1].pc = "getBalance"
    /\ tick[1].i = 2
    /\ hist[IdOf(tick[1].batch[1])].failed
    /\ hist[IdOf(tick[1].batch[1])].handled = 1
    /\ RelayerMessageId(tick[1].batch[1]) \notin processedMessages

C14_OneSignaturePerEvent ==
    \A h \in TxNames, i \in 0..3 :
        /\ \A s1 \in ClaimChains : issued[<<h, i, s1>>] <= 1
        /\ \A s1, s2 \in ClaimChains :
              s1 # s2 => issued[<<h, i, s1>>] + issued[<<h, i, s2>>] <= 1

\* the service is configured for the chain the claim names
Configured(c) ==
    signerKey /\ nftContracts[IF c.sourceChain = EthChainId THEN "ETH" ELSE "NEOX"] # ZeroAddress

\* C15: requests handled one after the other: a claim whose fields all match the
\* ledger is answered 200 with a signature the first time and 409 without one
\* every later time; one signature and one record exist for it.
C15_OnceThenConflict ==
    \A r \in DOMAIN req :
        LET q == req[r]
        IN  (q.pc = "done" /\ Backed(q.claim) /\ Configured(q.claim) /\ ~q.fault) =>
                /\ q.status \in {200, 409}
                /\ q.status = 200 => q.body = {TypedData(q.claim)}
                /\ q.status = 409 => (q.body = {} /\ ~q.wrote)
                /\ issued[ReqKey(q)] = 1
                /\ recStat[ReqKey(q)].ok = 1
                /\ Cardinality({row \in rows : RowKey(row) = ReqKey(q)}) = 1

\* a matching claim answered 409 after its signature was issued
C15_Witness ==
    \E r \in DOMAIN req :
        /\ req[r].pc = "done"
        /\ req[r].status = 409
        /\ Backed(req[r].claim)
        /\ issued[ReqKey(req[r])] = 1

\* the status the fixed order of checks prescribes for a request: that of the
\* first check its claim fails, 200 when it fails none
FirstFailing(q) ==
    LET c == q.claim
        net == SelectNetwork(c.sourceChain)
        found == getTransactionReceipt(net, c.txHash)
        receipt == CHOOSE x \in found : TRUE
        idx == validatedLogIndex(receipt, c)
    IN  IF MissingFields(c) THEN 400
        ELSE IF ~Configured(c) THEN 503
        ELSE IF found = {} THEN 404
        ELSE IF SenderMismatch(receipt, c) THEN 403
        ELSE IF ~( /\ c.timestamp.num
                   /\ Abs(getBlock(net, receipt.govBlockNumber).timestamp - c.timestamp.n)
                        <= TimestampTolerance ) THEN 400
        ELSE IF derivedDestChain(c.sourceChain) # c.destChain THEN 400
        ELSE IF idx = -1 THEN 404
        ELSE IF ~q.wrote /\ \E row \in rows : RowKey(row) = Key(c.txHash, idx, c.sourceChain)
             THEN 409
        ELSE 200

\* C16: a request that meets no RPC or database fault is answered with the status
\* of the first check it fails in the order field presence, configuration,
\* receipt, sender, timestamp, destination chain, log entry, replay.
C16_FirstFailingCheck ==
    \A r \in DOMAIN req :
        (req[r].pc = "done" /\ ~req[r].fault) => req[r].status = FirstFailing(req[r])

\* C17: a request with all fields present, to a configured service, whose receipt
\* exists and was sent by another address than the claimed bridger, is answered
\* 403 without a signature, whatever its other fields.
C17_WrongSender ==
    \A r \in DOMAIN req :
        LET q == req[r]
            found == getTransactionReceipt(SelectNetwork(q.claim.sourceChain), q.claim.txHash)
        IN  ( /\ q.pc = "done"
              /\ ~q.fault
              /\ ~MissingFields(q.claim)
              /\ Configured(q.claim)
              /\ \E receipt \in found : receipt.from.v # q.claim.bridger.v )
            => (q.status = 403 /\ q.body = {} /\ ~q.wrote)

\* a 403 for a claim that names another bridger than the sender of its transaction
C17_Witness ==
    \E r \in DOMAIN req :
        /\ req[r].pc = "done"
        /\ req[r].status = 403
        /\ \E receipt \in getTransactionReceipt(SelectNetwork(req[r].claim.sourceChain),
                                                req[r].claim.txHash) :
              receipt.from.v # req[r].claim.bridger.v

\* the claim is a matching one but for its amount
ForgedAmount(c) ==
    \E a \in Amounts : a # c.amount /\ Backed([c EXCEPT !.amount = a])

TimeDiff(c) ==
    LET net == SelectNetwork(c.sourceChain)
        receipt == CHOOSE x \in getTransactionReceipt(net, c.txHash) : TRUE
    IN  Abs(getBlock(net, receipt.govBlockNumber).timestamp - c.timestamp.n)

\* the claim passes every check but, possibly, the one on its timestamp, and has
\* not been attested before this request
OnlyTimestampOpen(q) ==
    /\ Configured(q.claim)
    /\ \E t \in Timestamps : Backed([q.claim EXCEPT !.timestamp = t])
    /\ LET c == q.claim
           receipt == CHOOSE x \in getTransactionReceipt(SelectNetwork(c.sourceChain), c.txHash) : TRUE
       IN  q.wrote \/ ~\E row \in rows :
                          RowKey(row) = Key(c.txHash, validatedLogIndex(receipt, c), c.sourceChain)

\* C19: with every other check passing, a claim is accepted iff its timestamp is
\* within 60 seconds of the block timestamp: 60 on either side is accepted, 61
\* is rejected with 400.
C19_ToleranceBoundary ==
    \A r \in DOMAIN req :
        LET q == req[r]
        IN  (q.pc = "done" /\ ~q.fault /\ OnlyTimestampOpen(q)) =>
                /\ q.status = 200 <=> (q.claim.timestamp.num /\ TimeDiff(q.claim) <= 60)
                /\ q.status # 200 => q.body = {}
                /\ (q.claim.timestamp.num /\ q.claim.timestamp.n # 0 /\ TimeDiff(q.claim) > 60)
                     => q.status = 400

\* a signature for a claim whose timestamp is exactly 60 seconds off the block
C19_Witness ==
    \E r \in DOMAIN req :
        /\ req[r].pc = "done"
        /\ req[r].status = 200
        /\ req[r].claim.timestamp.num
        /\ TimeDiff(req[r].claim) = 60

\* C20: without the signer key, or with the zero address as the NFT contract of
\* the claimed source chain, a request with all fields present is answered 503
\* without a signature and without a record, and never gets to a ledger read.
C20_NotConfigured ==
    /\ [](\A r \in DOMAIN req :
            (req[r].pc = "done" /\ ~MissingFields(req[r].claim) /\ ~Configured(req[r].claim))
            => (req[r].status = 503 /\ req[r].body = {} /\ ~req[r].wrote))
    /\ [][\A r \in DOMAIN req :
            (req[r].pc = "idle" /\ req'[r].pc # "idle" /\ ~Configured(req'[r].claim))
            => req'[r].pc = "done"]_vars
    /\ [](\A r \in DOMAIN req :
            req[r].pc \in {"receipt", "block", "check", "sign", "record"}
            => Configured(req[r].claim))

\* a 503 for a complete claim where the key is set and the contract address is not
C20_Witness ==
    \E r \in DOMAIN req :
        /\ req[r].pc = "done"
        /\ req[r].status = 503
        /\ ~MissingFields(req[r].claim)
        /\ signerKey
        /\ ~Configured(req[r].claim)

\* the identifier the attestation endpoint recomputes for a source event (lines
\* 248-258: the claimed chains, the Ferry address, the arguments of the log)
VerifierMessageId(ev) ==
    computeMessageId(NETWORKS[ev.net].chainId, derivedDestChain(NETWORKS[ev.net].chainId),
                     FERRY_CONTRACTS[ev.net], ArgsOf(ev).nonce, ArgsOf(ev).from,
                     ArgsOf(ev).toOnOtherChain, ArgsOf(ev).amountIn, ArgsOf(ev).amountOut,
                     ArgsOf(ev).pforkFeePaid)

\* C21: the messageId the relayer passes to fulfillBridgeIn for a source event
\* is the messageId the attestation endpoint recomputes and accepts for that
\* event: one identifier scheme per deployment.
C21_OneIdentifierScheme ==
    \A t \in DOMAIN tick :
        tick[t].pc = "wait" =>
            LET ev == tick[t].batch[tick[t].i]
            IN  /\ RelayerMessageId(ev) = VerifierMessageId(ev)
                /\ Len(RelayerMessageId(ev).h) = Len(VerifierMessageId(ev).h)

\* C22: the request handleMint builds from the bridge that handleBridge stored
\* passes every verification step of a configured service and, the event not
\* having been attested before, is answered 200 with a signature.
C22_MintFromFrontend ==
    \A r \in DOMAIN req :
        LET q == req[r]
            c == q.claim
        IN  ( /\ q.pc = "done"
              /\ ~q.fault
              /\ c \in MintBodies
              /\ Configured(c)
              /\ q.wrote \/ ~\E row \in rows : row.txHash.v = c.txHash.v )
            => (q.status = 200 /\ q.body # {})

\* C23: the attestation records are append-only: a record that exists stays, with
\* every field (id, bridger, messageId, amount) as it was created, through every
\* step of every request.
C23_AppendOnly == [][\A row \in rows : row \in rows']_vars

\* the fields a variant packs, addresses by their value
Packed(kind, f) ==
    LET seven == <<f.srcChainId, f.dstChainId, f.srcFerry, f.nonce, f.from.v, f.toOnOther.v,
                   f.amountOut>>
    IN  IF kind = "relayer" THEN seven ELSE seven \o <<f.amountIn, f.nativeFee>>

NftState == <<signer, mintFee, minted, messageIdToTokenId, tokenIdCounter, tokenMetadata, owners>>

\* C25: mintSignature succeeds at most once per messageId: each minted messageId
\* has one token of its own, totalSupply is the number of messageIds marked
\* minted, a messageId stays minted with its token, and a mint with a messageId
\* already minted reverts and leaves the contract as it was.
C25_OneNftPerBridge ==
    /\ [](/\ tokenIdCounter = Cardinality(minted)
          /\ DOMAIN messageIdToTokenId = minted
          /\ \A a, b \in minted : messageIdToTokenId[a] = messageIdToTokenId[b] => a = b
          /\ \A a \in minted : /\ messageIdToTokenId[a] \in DOMAIN owners
                                /\ tokenMetadata[messageIdToTokenId[a]].messageId = a)
    /\ [][/\ minted \subseteq minted'
          /\ \A a \in minted : messageIdToTokenId'[a] = messageIdToTokenId[a]
          /\ (nftLast'.op = "mintSignature" /\ nftLast'.request.messageId \in minted)
                => (~nftLast'.ok /\ NftState' = NftState)]_vars

\* a second mint for a minted messageId, well signed and paid, has reverted
C25_Witness ==
    /\ nftLast # <<>>
    /\ nftLast.op = "mintSignature"
    /\ ~nftLast.ok
    /\ nftLast.request.messageId \in minted
    /\ nftLast.caller = nftLast.request.bridger
    /\ nftLast.value >= mintFee
    /\ nftLast.signature = SignTypedData(signer, NftDomain, nftLast.request)

\* C26: a token is minted only when the caller is the bridger of the request and
\* the signature was made by the currently configured signer over this
\* contract's domain and the six fields of the request; a signature of a
\* replaced signer does not mint.
C26_OnlySignedForBridger ==
    [][tokenIdCounter' # tokenIdCounter =>
          /\ nftLast'.op = "mintSignature"
          /\ nftLast'.caller = nftLast'.request.bridger
          /\ nftLast'.signature.by = signer
          /\ nftLast'.signature.by = signer'
          /\ nftLast'.signature.digest = Digest(NftDomain, nftLast'.request)
          /\ owners'[tokenIdCounter] = nftLast'.caller]_vars

\* after setSigner, a mint by the bridger with the replaced signer's signature
\* over the request has reverted
C26_Witness ==
    /\ nftLast # <<>>
    /\ nftLast.op = "mintSignature"
    /\ ~nftLast.ok
    /\ nftLast.signature.by \in signerUpdated \ {signer}
    /\ nftLast.signature = SignTypedData(nftLast.signature.by, NftDomain, nftLast.request)
    /\ nftLast.caller = nftLast.request.bridger
    /\ nftLast.value >= mintFee
    /\ nftLast.request.messageId \notin minted

\* voting is over and the proposal has passed: quorum reached, more votes for than
\* against, neither cancelled nor executed
Passed(p) ==
    /\ govBlockNumber > p.endBlock
    /\ p.forVotes + p.againstVotes >= quorum
    /\ p.forVotes > p.againstVotes
    /\ ~p.cancelled
    /\ ~p.executed

\* C27: a passed proposal can be executed: with executionDelay > 0 an execute call
\* queues it if it is not queued yet, and an execute call made once the delay has
\* elapsed marks it Executed when the calls to its targets succeed; with no delay
\* the first call does.
C27_PassedIsExecutable ==
    [][\A id \in DOMAIN proposals :
          ( /\ Passed(proposals[id])
            /\ govLast' # govLast
            /\ govLast'.op = "execute"
            /\ govLast'.id = id
            /\ govLast'.arg )
          => LET p == proposals[id]
                 now == BlockTimestamp(govBlockNumber)
             IN  IF executionDelay > 0 /\ p.executionTime = 0
                 THEN govLast'.ok /\ proposals'[id].executionTime = now + executionDelay
                 ELSE IF executionDelay > 0 /\ now < p.executionTime
                 THEN ~govLast'.ok
                 ELSE govLast'.ok /\ proposals'[id].executed]_vars

\* C28: the votes counted on a proposal never exceed the PFORK supply its voters
\* held when it was created, which is at most the supply in circulation: no
\* token is counted twice on one proposal.
C28_NoTokenCountedTwice ==
    \A id \in DOMAIN proposals :
        /\ proposals[id].forVotes + proposals[id].againstVotes <= GovSupply
        /\ \A v \in proposals[id].hasVoted : proposals[id].votingPower[v] <= GovSupply

\* the transfer made by this step, if the vault made one
Paid == IF transfers' # transfers THEN {transfers'[Len(transfers')]} ELSE {}

\* no exit request has been paid twice, and every payment went to the
\* requester for the requested amount
PaidAtMostOnce ==
    /\ \A i, j \in DOMAIN transfers : transfers[i].exitId = transfers[j].exitId => i = j
    /\ \A i \in DOMAIN transfers :
          /\ transfers[i].exitId \in DOMAIN exitRequests
          /\ exitRequests[transfers[i].exitId].completed
          /\ transfers[i].to = exitRequests[transfers[i].exitId].user
          /\ transfers[i].amount = exitRequests[transfers[i].exitId].amount

\* a priorityExit pays only after requestBlock + priorityExitDelay and takes
\* one priority unit of the caller; a call for a completed exit reverts
PriorityAndRepeat ==
    /\ \A t \in Paid :
          LET r == exitRequests[t.exitId]
          IN  /\ ~r.completed
              /\ Len(transfers') = Len(transfers) + 1
              /\ exitRequests'[t.exitId].isPriority =>
                    /\ vaultBlockNumber >= r.requestBlock + priorityExitDelay
                    /\ <<r.user, r.requestBlock>> \in DOMAIN unitsAvailable
                    /\ unitsAvailable'[<<r.user, r.requestBlock>>]
                          = unitsAvailable[<<r.user, r.requestBlock>>] - 1
                    /\ unitsAvailable'[<<r.user, r.requestBlock>>] >= 0
    /\ \A id \in DOMAIN exitRequests :
          (exitRequests[id].completed /\ vaultLast' # vaultLast /\ vaultLast'.exitId = id)
              => ~vaultLast'.ok /\ transfers' = transfers

\* C29 as stated: QBridgeVault pays each exit request at most once;
\* completeExit transfers only when block.number >= requestBlock + exitDelay,
\* priorityExit only when block.number >= requestBlock + priorityExitDelay
\* and one priority unit of the caller has been consumed; a second
\* completeExit or priorityExit for the same exitId reverts.
C29_PaidAfterExitDelay ==
    /\ []PaidAtMostOnce
    /\ [][/\ PriorityAndRepeat
          /\ \A t \in Paid :
                ~exitRequests'[t.exitId].isPriority =>
                    vaultBlockNumber >= exitRequests[t.exitId].requestBlock + exitDelay]_vars

\* C29 amended: the same, where a completeExit transfers only when
\* block.number >= the request's unlockBlock, which is the request block plus
\* the exitDelay in force when the exit was requested.
C29_PaidOnceAfterUnlock ==
    /\ []PaidAtMostOnce
    /\ [][/\ PriorityAndRepeat
          /\ \A id \in DOMAIN exitRequests' \ DOMAIN exitRequests :
                /\ exitRequests'[id].requestBlock = vaultBlockNumber
                /\ exitRequests'[id].unlockBlock = vaultBlockNumber + exitDelay
          /\ \A id \in DOMAIN exitRequests :
                /\ exitRequests'[id].unlockBlock = exitRequests[id].unlockBlock
                /\ exitRequests'[id].requestBlock = exitRequests[id].requestBlock
          /\ \A t \in Paid :
                ~exitRequests'[t.exitId].isPriority =>
                    vaultBlockNumber >= exitRequests[t.exitId].unlockBlock]_vars

\* both kinds of exit have been paid, and a further call for a paid exit
\* has reverted
C29_Witness ==
    /\ Len(transfers) = 2
    /\ \E i, j \in DOMAIN transfers :
          /\ exitRequests[transfers[i].exitId].isPriority
          /\ ~exitRequests[transfers[j].exitId].isPriority
    /\ vaultLast # <<>>
    /\ ~vaultLast.ok
    /\ vaultLast.exitId \in DOMAIN exitRequests
    /\ exitRequests[vaultLast.exitId].completed
    /\ exitRequests[vaultLast.exitId].user = vaultLast.caller

\* the messageId a callback is relaying
Relaying(k) == RelayerMessageId(k.batch[k.i])

\* C30: for every messageId, the relayer never sends a second fulfillBridgeIn
\* while a first submission for the same messageId is still awaiting
\* confirmation, also when the timer fires while an earlier tick is awaiting.
C30_NoSecondSubmission ==
    [][\A t \in DOMAIN tick :
          (tick[t].pc = "fulfillBridgeIn" /\ tick'[t].pc = "wait")
              => \A s \in DOMAIN tick \ {t} :
                    tick[s].pc = "wait" => Relaying(tick[s]) # Relaying(tick[t])]_vars

\* the range a read at height cur with cursor last has to cover
WindowStart(last, cur) == IF last > cur - 100 THEN last ELSE cur - 100

\* C31: a tick reads a chain only when currentHeight > lastSeenBlock and then
\* reads exactly [max(lastSeenBlock, currentHeight - 100), currentHeight]; if
\* every two consecutive successful polls are at most 100 blocks apart, every
\* block from (first polled height - 100) to the latest polled height is in a
\* scanned range.
C31_ScanWindow ==
    /\ [](gapsWithin /\ firstPolled # -1 =>
            \A b \in 0..latestPolled : b >= firstPolled - 100 => b \in scanned)
    /\ [][/\ scanned' # scanned =>
                \E t \in DOMAIN poll : poll[t].pc = "queryFilter" /\ poll'[t].pc = "relay"
          /\ \A t \in DOMAIN poll :
            /\ (poll[t].pc = "getBlockNumber" /\ poll'[t].pc = "queryFilter") =>
                  /\ scanHeight > lastSeenBlock
                  /\ poll'[t].cur = scanHeight
                  /\ poll'[t].fromBlock = WindowStart(lastSeenBlock, scanHeight)
            /\ (poll[t].pc = "queryFilter" /\ poll'[t].pc = "relay") =>
                  scanned' = scanned \cup {b \in 0..MaxScanHeight :
                                             poll[t].fromBlock <= b /\ b <= poll[t].cur}]_vars

\* polls exactly 100 blocks apart have gone through, with the lookback
\* starting above block 0, and one more block has been read since
C31_Witness ==
    /\ gapsWithin
    /\ firstPolled > 100
    /\ latestPolled = firstPolled + 100
    /\ lastSeenBlock = latestPolled
    /\ \E t \in DOMAIN poll : poll[t].pc = "relay" /\ poll[t].cur > latestPolled

\* C32: a signature is issued only for claims whose (sourceChain, destChain)
\* is (1, 47763) or (47763, 1); a claim naming another source chain is
\* rejected, and is not verified against the Neo X ledger.
C32_SourceChainDomain ==
    \A r \in DOMAIN req :
        /\ req[r].status = 200 =>
              <<req[r].claim.sourceChain, req[r].claim.destChain>> \in {<<1, 47763>>, <<47763, 1>>}
        /\ (req[r].pc # "idle" /\ req[r].claim.sourceChain \notin {1, 47763}) =>
              req[r].pc = "done" /\ req[r].status \in {400, 503}

\* the request of slot r is answered by this step
Answered(r) == req[r].pc # "done" /\ req'[r].pc = "done"

\* C33: every signature returned by the attestation endpoint has, at the
\* moment of the response, a persisted record for the validated (txHash
\* lower-cased, logIndex, sourceChain); if the write fails the request is
\* answered with an error and the computed signature is not returned.
C33_PersistedBeforeReturn ==
    [][\A r \in DOMAIN req :
          Answered(r) =>
              /\ req'[r].body # {} =>
                    /\ req'[r].status = 200
                    /\ req[r].pc = "record"
                    /\ \E row \in rows' :
                          /\ row.txHash = [v |-> req[r].claim.txHash.v, up |-> FALSE]
                          /\ row.logIndex = req[r].logIndex
                          /\ row.sourceChain = req[r].claim.sourceChain
              /\ (req[r].pc = "record" /\ ~req'[r].wrote) =>
                    /\ req'[r].status = 500
                    /\ req'[r].body = {}
                    /\ rows' = rows
              /\ req'[r].status = 200 => req'[r].body = req[r].signature /\ req'[r].body # {}]_vars

\* a signature has been returned with its record in the table, and a failed
\* write has been answered with an error that carries no signature
C33_Witness ==
    /\ \E r \in DOMAIN req :
          /\ req[r].pc = "done" /\ req[r].status = 200 /\ req[r].body # {}
          /\ \E row \in rows : row.logIndex = req[r].logIndex /\ row.txHash.v = req[r].claim.txHash.v
    /\ \E r \in DOMAIN req :
          req[r].pc = "done" /\ req[r].status = 500 /\ req[r].signature # {} /\ req[r].body = {}

\* the indices of the log entries of the claimed transaction that the source
\* Ferry emitted as BridgeOutRequested for the claim's bridger, amount and
\* identifier
Anchors(c) ==
    LET net == IF c.sourceChain = 1 THEN "ETH" ELSE "NEOX"
        ferry == FERRY_CONTRACTS[net]
        logs == IF c.txHash.v \in DOMAIN LedgerReceipts[net]
                THEN LedgerReceipts[net][c.txHash.v].logs ELSE <<>>
    IN  {logs[i].index : i \in {j \in DOMAIN logs :
            /\ logs[j].address.v = ferry
            /\ logs[j].name = "BridgeOutRequested"
            /\ logs[j].args.from.v = c.bridger.v
            /\ logs[j].args.amountOut = c.amount
            /\ c.messageId.h = <<c.sourceChain, c.destChain, ferry, logs[j].args.nonce,
                                 logs[j].args.from.v, logs[j].args.toOnOtherChain.v,
                                 logs[j].args.amountIn, logs[j].args.amountOut,
                                 logs[j].args.pforkFeePaid>>}}

\* C34: the log index stored for an approved claim is the index of the first
\* log entry of the source Ferry that decodes as BridgeOutRequested with the
\* claim's bridger, amount and identifier; earlier entries that fail a check
\* are skipped and never cause a rejection by themselves.
C34_CanonicalAnchor ==
    /\ [](\A r \in DOMAIN req :
            req[r].logIndex # -1 =>
                /\ req[r].logIndex \in Anchors(req[r].claim)
                /\ \A i \in Anchors(req[r].claim) : req[r].logIndex <= i)
    /\ [][/\ \A row \in rows' \ rows :
                \E r \in DOMAIN req :
                    /\ req[r].pc = "record"
                    /\ row.logIndex = req[r].logIndex
                    /\ row.txHash.v = req[r].claim.txHash.v
          /\ \A r \in DOMAIN req :
                (/\ req[r].pc = "block" /\ req'[r].pc = "done"
                 /\ req'[r].status = 404 /\ ~req'[r].fault)
                    => Anchors(req[r].claim) = {}]_vars

\* a claim has been approved and stored whose event is the last entry of its
\* receipt, behind entries of another contract, of another event and of
\* another bridge
C34_Witness ==
    \E r \in DOMAIN req :
        /\ req[r].status = 200
        /\ req[r].logIndex = 3
        /\ \E row \in rows : row.logIndex = 3 /\ row.txHash.v = req[r].claim.txHash.v

\* C35: lastSeenBlock of each chain never decreases over the process
\* lifetime: no tick, including one that started earlier and finishes after
\* a later tick, sets it to a height lower than its current value.
C35_CursorMonotonic ==
    [][\A net \in Networks : lastBlock'[net] >= lastBlock[net]]_vars

\* C36: a failure while polling the first chain (Ethereum getBlockNumber or
\* queryFilter throwing) does not prevent the second chain (Neo X) from being
\* polled in the same tick.
C36_ChainIsolation ==
    [][\A t \in DOMAIN tick :
          (/\ tick[t].net = "ETH"
           /\ tick[t].pc \in {"getBlockNumber", "queryFilter"}
           /\ tick'[t] # tick[t])
              => tick'[t].pc # "idle"]_vars

\* a record is stored for the event the request of slot r was validated for
Stored(r) ==
    \E row \in rows :
        /\ row.txHash.v = req[r].claim.txHash.v
        /\ row.logIndex = req[r].logIndex
        /\ row.sourceChain = req[r].claim.sourceChain

SameHashAnyCase(a, b) == a.v = b.v

\* a record is stored for the event of slot r's request under a hash that
\* differs from the claimed one at most in letter case
AttestedAnyCase(r) ==
    \E row \in rows :
        /\ SameHashAnyCase(row.txHash, req[r].claim.txHash)
        /\ row.logIndex = req[r].logIndex
        /\ row.sourceChain = req[r].claim.sourceChain

\* C38: the replay guard does not depend on the letter case of txHash: every
\* stored record holds the lower-cased hash, and an otherwise valid claim
\* whose event was attested under a hash differing at most in letter case is
\* answered 409 by the replay check (unless the storage read itself throws).
C38_CaseInsensitiveReplay ==
    /\ [](\A row \in rows : row.txHash.up = FALSE)
    /\ [][(req[1].pc = "check" /\ req'[1].pc # "check" /\ ~req'[1].fault
              /\ AttestedAnyCase(1))
             => req'[1].status = 409 /\ req'[1].pc = "done"]_vars

\* a claim written with an upper-case hash was answered 409 against the
\* record stored under the lower-case hash
C38_Witness ==
    /\ req[1].pc = "done" /\ req[1].status = 409
    /\ req[1].claim.txHash.up = TRUE
    /\ \E row \in rows :
          /\ row.txHash.up = FALSE
          /\ SameHashAnyCase(row.txHash, req[1].claim.txHash)
          /\ row.logIndex = req[1].logIndex

\* C39: while minBondAmount is the one set at construction, every address for
\* which isSequencer returns true has a bondedBalance of at least minBondAmount
C39_ActiveMeetsMinBond ==
    ~minBondChanged =>
        \A s \in DOMAIN sequencerInfo :
            sequencerInfo[s].active => sequencerInfo[s].bonded >= minBondAmount

=============================================================================
